---------------------------- MODULE Spec2Model ----------------------------
(***************************************************************************)
(* Model of the MINIPULS 3 controller (src/debugv2.py): the protocol       *)
(* driver MinipulsController, the plan expander                            *)
(* _get_expanded_sequence_data, and the sequence executor                  *)
(* (_run_sequence, _sequence_worker, _execute_phase, _stop_sequence,       *)
(* _on_sequence_finish) running as threads next to the Tk main thread.     *)
(*                                                                         *)
(* Numbers.  Python floats (rpm, durations, times) are modelled as exact   *)
(* rationals <<numerator, denominator>> in lowest terms; int() truncates   *)
(* toward zero.  Rounding error of binary floating point is not modelled.  *)
(*                                                                         *)
(* Time.  time.perf_counter() is modelled per worker by the time elapsed   *)
(* since phase_start_time.  Every comparison the code makes is against a   *)
(* deadline of the phase (i * step_time, duration_s), so the clock moves   *)
(* from deadline to deadline and saturates at the phase's duration.  The   *)
(* monitor (_periodic_updater) reads the clock of the main thread, which   *)
(* is any of a few readings since the start of the run.                    *)
(*                                                                         *)
(* Texts.  What is typed into a dialog and what is written to a file are   *)
(* literals: float(), int(), json.dump and json.load convert between them  *)
(* and the numbers of a step.                                              *)
(***************************************************************************)
EXTENDS Integers, Sequences, FiniteSets, TLC

(***************************************************************************)
(* Exact rationals                                                         *)
(***************************************************************************)
Abs(a) == IF a < 0 THEN -a ELSE a

RECURSIVE GCD(_, _)
GCD(a, b) == IF b = 0 THEN a ELSE GCD(b, a % b)

Q(n, d) ==
    CHOOSE q \in { <<(s * x) \div g, (s * y) \div g>> :
                      <<x, y, g, s>> \in {<<n, d, GCD(Abs(n), Abs(d)),
                                            IF d < 0 THEN -1 ELSE 1>>} } : TRUE

QInt(n) == <<n, 1>>

QAdd(a, b) == Q(a[1] * b[2] + b[1] * a[2], a[2] * b[2])

QSub(a, b) == Q(a[1] * b[2] - b[1] * a[2], a[2] * b[2])

QMul(a, b) == Q(a[1] * b[1], a[2] * b[2])

QDiv(a, b) == Q(a[1] * b[2], a[2] * b[1])

QLt(a, b) == a[1] * b[2] < b[1] * a[2]

QLe(a, b) == a[1] * b[2] <= b[1] * a[2]

\* Python int(x) of a float: truncation toward zero.
QTrunc(a) == IF a[1] >= 0 THEN a[1] \div a[2] ELSE -((-a[1]) \div a[2])

\* Python min(a, b) and max(a, b): the first argument unless the second is
\* strictly smaller (larger).
PyMin(a, b) == IF QLt(b, a) THEN b ELSE a

PyMax(a, b) == IF QLt(a, b) THEN b ELSE a

(***************************************************************************)
(* Steps of a Sequence (the dicts built by AddPhaseDialog.on_ok and        *)
(* AddCycleDialog.on_ok, or read by json.load)                             *)
(***************************************************************************)
Phase(direction, mode, rpm, duration, unit) ==
    [type |-> "Phase", direction |-> direction, mode |-> mode,
     rpm |-> rpm, duration |-> duration, unit |-> unit]

Cycle(start, end, repeats) ==
    [type |-> "Cycle", start_phase |-> start, end_phase |-> end,
     repeats |-> repeats]

\* dict helpers: cycle_counters is a dict keyed by the 0-based pc.
EmptyDict == [k \in {} |-> 0]

DictPut(d, k, v) == [q \in (DOMAIN d) \cup {k} |-> IF q = k THEN v ELSE d[q]]

DictDel(d, k) == [q \in (DOMAIN d) \ {k} |-> d[q]]

(***************************************************************************)
(* Texts: what the operator types into an entry, and the tokens of a JSON  *)
(* document. A number is written as an integer literal or as a decimal      *)
(* literal mantissa / 10^scale; anything else is a string.                 *)
(***************************************************************************)
IntText(n) == [kind |-> "int", mantissa |-> n, scale |-> 0]

RealText(mantissa, scale) == [kind |-> "real", mantissa |-> mantissa, scale |-> scale]

StringText(chars) == [kind |-> "string", chars |-> chars]

\* float(text): the number a literal stands for; ValueError for other text.
float_of(text) ==
    IF text.kind \in {"int", "real"}
    THEN [raised |-> FALSE, value |-> Q(text.mantissa, 10 ^ text.scale)]
    ELSE [raised |-> TRUE]

\* int(text): the integer of an integer literal; ValueError for a literal
\* with a decimal point and for other text.
int_of(text) ==
    IF text.kind = "int"
    THEN [raised |-> FALSE, value |-> text.mantissa]
    ELSE [raised |-> TRUE]

\* dialog.result as __init__ leaves it: None.
NoResult == [type |-> "None"]

\* AddPhaseDialog.on_ok (lines 201-210) on the contents of the dialog's
\* fields: the new dict, or None behind an error box.
AddPhaseDialog_on_ok(entry) ==
    LET rpm == float_of(entry.rpm_entry)
        duration == float_of(entry.duration_entry)
    IN  IF rpm.raised \/ duration.raised THEN NoResult
        ELSE IF ~(QLe(QInt(0), rpm.value) /\ QLe(rpm.value, QInt(48))
                    /\ QLe(QInt(0), duration.value))
        THEN NoResult
        ELSE Phase(entry.direction_cb, entry.speed_mode_cb, rpm.value,
                   duration.value, entry.unit_combobox)

\* AddCycleDialog.on_ok (lines 247-258)
AddCycleDialog_on_ok(entry) ==
    LET start == int_of(entry.start_entry)
        end == int_of(entry.end_entry)
        repeats == int_of(entry.repeats_entry)
    IN  IF start.raised \/ end.raised \/ repeats.raised THEN NoResult
        ELSE IF ~(start.value > 0 /\ end.value >= start.value /\ repeats.value > 0)
        THEN NoResult
        ELSE Cycle(start.value, end.value, repeats.value)

\* The keys of a step in the order the dialogs (and the expander, for
\* original_index) insert them, which is the order json.dump writes them in.
KeyOrder ==
    <<"type", "direction", "mode", "rpm", "duration", "unit",
      "start_phase", "end_phase", "repeats", "original_index">>

\* The keys whose values are floats; the other numbers of a step are ints.
FloatKeys == {"rpm", "duration"}

StringKeys == {"type", "direction", "mode", "unit"}

MaxDecimals == 3      \* decimals of a float that is written to a file

\* A float written with two decimals.
float_repr_two_decimals(x) ==
    RealText(QTrunc(QAdd(QMul(x, QInt(100)), Q(1, 2))), 2)

\* float.__repr__, which json.dump uses for a float: the shortest decimal
\* literal that reads back as the same float, always with a decimal point.
float_repr(x) ==
    LET scale == CHOOSE k \in 1..MaxDecimals :
                    /\ (x[1] * 10 ^ k) % x[2] = 0
                    /\ \A j \in 1..(k - 1) : (x[1] * 10 ^ j) % x[2] # 0
    IN  RealText((x[1] * 10 ^ scale) \div x[2], scale)

\* json.dump of one value of a step.
json_dump_value(key, value) ==
    IF key \in StringKeys THEN StringText(value)
    ELSE IF key \in FloatKeys THEN float_repr(value)
    ELSE IntText(value)

\* The members of s whose positions are in keep, in the order of s.
RECURSIVE Kept(_, _)
Kept(s, keep) ==
    IF s = <<>> THEN <<>>
    ELSE Kept(SubSeq(s, 1, Len(s) - 1), keep)
            \o (IF Len(s) \in keep THEN <<s[Len(s)]>> ELSE <<>>)

\* json.dump of a step: one member <<key, token>> for every key of the dict.
json_dump_step(step) ==
    LET keys == Kept(KeyOrder, {j \in DOMAIN KeyOrder : KeyOrder[j] \in DOMAIN step})
    IN  [j \in DOMAIN keys |-> <<keys[j], json_dump_value(keys[j], step[keys[j]])>>]

\* json.dump(self.sequence_data, f, indent=4) (line 868): the document.
json_dump(sequence_data) ==
    [i \in DOMAIN sequence_data |-> json_dump_step(sequence_data[i])]

\* json.load of one value: a string, an int or a float. A speed or a
\* duration written as an integer literal is a Python int, which this model,
\* having one kind of number for them, writes as n/1; the documents of the
\* model write every other number as an integer literal.
json_load_value(key, token) ==
    IF token.kind = "string" THEN token.chars
    ELSE IF key \in FloatKeys THEN Q(token.mantissa, 10 ^ token.scale)
    ELSE token.mantissa

\* json.load of an object: a dict with the object's keys; of two members
\* with one key the later one counts.
json_load_step(object) ==
    [key \in {object[j][1] : j \in DOMAIN object} |->
        LET last == CHOOSE j \in DOMAIN object :
                        /\ object[j][1] = key
                        /\ \A k \in DOMAIN object : object[k][1] = key => k <= j
        IN  json_load_value(key, object[last][2])]

\* json.load(f) (line 878) of a document that is a list of objects.
json_load(document) ==
    [i \in DOMAIN document |-> json_load_step(document[i])]

(***************************************************************************)
(* Plan expander: PumpControlUI._get_expanded_sequence_data                *)
(***************************************************************************)
RAMP_STEP_INTERVAL_S == Q(1, 10)

max_iterations == 10000

\* duration_s with an hour taken for sixty seconds.
expand_duration_s_short_hour(instruction) ==
    IF instruction.unit = "min" THEN QMul(instruction.duration, QInt(60))
    ELSE IF instruction.unit = "hr" THEN QMul(instruction.duration, QInt(60))
    ELSE instruction.duration

\* duration_s of a Phase instruction (lines 585-589).
expand_duration_s(instruction) ==
    IF instruction.unit = "min" THEN QMul(instruction.duration, QInt(60))
    ELSE IF instruction.unit = "hr" THEN QMul(instruction.duration, QInt(3600))
    ELSE instruction.duration

\* num_steps of a Ramp (lines 607-609); called with command_interval # 0
\* whenever duration_s > 0.
expand_num_steps(duration_s, command_interval) ==
    LET n == IF QLt(QInt(0), duration_s)
             THEN QTrunc(QDiv(duration_s, command_interval))
             ELSE 1
    IN  IF n = 0 THEN 1 ELSE n

\* The copies numbered from 1 instead of 0.
expand_sequence_copy_from_one(sequence_data) ==
    [i \in 1..Len(sequence_data) |->
        [original_index |-> i] @@ sequence_data[i]]

\* sequence_copy = [dict(s) for s in sequence_data], each copy then given
\* the key 'original_index' (lines 571-572).
expand_sequence_copy(sequence_data) ==
    [i \in 1..Len(sequence_data) |->
        [original_index |-> i - 1] @@ sequence_data[i]]

\* The locals with sequence_copy a copy of the list only: 'original_index'
\* is then written into the caller's dicts.
ExpandStart_shallow(sequence_data) ==
    [time_points      |-> <<QInt(0)>>,
     rpm_points       |-> <<QInt(0)>>,
     cycle_spans      |-> <<>>,
     phase_markers    |-> <<>>,
     phase_directions |-> <<>>,
     current_rpm      |-> QInt(0),
     elapsed_time_s   |-> QInt(0),
     pc               |-> 0,
     cycle_counters   |-> EmptyDict,
     iterations       |-> 0,
     sequence_copy    |-> expand_sequence_copy(sequence_data),
     sequence_data    |-> expand_sequence_copy(sequence_data),
     status           |-> "loop"]

\* The locals of the function before the loop (lines 566-572).
ExpandStart(sequence_data) ==
    [time_points      |-> <<QInt(0)>>,
     rpm_points       |-> <<QInt(0)>>,
     cycle_spans      |-> <<>>,
     phase_markers    |-> <<>>,
     phase_directions |-> <<>>,
     current_rpm      |-> QInt(0),
     elapsed_time_s   |-> QInt(0),
     pc               |-> 0,
     cycle_counters   |-> EmptyDict,
     iterations       |-> 0,
     sequence_copy    |-> expand_sequence_copy(sequence_data),
     sequence_data    |-> sequence_data,   \* the caller's list, not written
     status           |-> "loop"]      \* "loop" | "break" | "raise"

\* The while condition of line 574 is false, or the loop was left.
ExpandHalted(st) ==
    \/ st.status # "loop"
    \/ ~(st.pc < Len(st.sequence_copy) /\ st.iterations < max_iterations)

\* Body of the loop for a Phase instruction (lines 577-621).
ExpandPhase(st, instruction, command_interval) ==
    LET duration_s == expand_duration_s(instruction)
        target_rpm == instruction.rpm
        marker     == [time |-> st.elapsed_time_s, rpm |-> st.current_rpm,
                       step |-> instruction.original_index + 1]
        dirn       == [end_time  |-> QAdd(st.elapsed_time_s, duration_s),
                       direction |-> instruction.direction]
        end_s      == QAdd(st.elapsed_time_s, duration_s)
        st1        == [st EXCEPT !.phase_markers = Append(@, marker),
                                 !.phase_directions = Append(@, dirn)]
    IN  IF instruction.mode = "Fixed" THEN
            LET jump == st.current_rpm # target_rpm
            IN  [st1 EXCEPT
                   !.time_points = (IF jump THEN Append(@, st.elapsed_time_s) ELSE @)
                                       \o <<end_s>>,
                   !.rpm_points = (IF jump THEN Append(@, target_rpm) ELSE @)
                                       \o <<target_rpm>>,
                   !.elapsed_time_s = end_s,
                   !.current_rpm = target_rpm,
                   !.pc = @ + 1]
        ELSE IF instruction.mode = "Ramp" THEN
            IF QLt(QInt(0), duration_s) /\ command_interval = QInt(0)
            THEN [st1 EXCEPT !.status = "raise"]     \* ZeroDivisionError, line 607
            ELSE
            LET num_steps     == expand_num_steps(duration_s, command_interval)
                time_step     == QDiv(duration_s, QInt(num_steps))
                rpm_increment == QDiv(QSub(target_rpm, st.current_rpm), QInt(num_steps))
            IN  [st1 EXCEPT
                   !.time_points = @ \o [i \in 1..num_steps |->
                        QAdd(st.elapsed_time_s, QMul(QInt(i), time_step))],
                   !.rpm_points = @ \o [i \in 1..num_steps |->
                        QAdd(st.current_rpm, QMul(QInt(i), rpm_increment))],
                   !.elapsed_time_s = end_s,
                   !.current_rpm = target_rpm,
                   !.pc = @ + 1]
        ELSE
            [st1 EXCEPT
               !.time_points = Append(@, end_s),
               !.rpm_points = Append(@, target_rpm),
               !.elapsed_time_s = end_s,
               !.current_rpm = target_rpm,
               !.pc = @ + 1]

\* The body for a Cycle with an invalid range stepped over instead of
\* ending the loop.
ExpandCycle_skip_invalid(st, instruction) ==
    LET start_idx == instruction.start_phase - 1
        end_idx   == instruction.end_phase - 1
        repeats   == instruction.repeats
        pc        == st.pc
    IN  IF ~(0 <= start_idx /\ start_idx <= end_idx
             /\ end_idx < Len(st.sequence_copy))
        THEN [st EXCEPT !.pc = @ + 1]
        ELSE
        LET cc0 == IF pc \in DOMAIN st.cycle_counters
                   THEN st.cycle_counters
                   ELSE DictPut(st.cycle_counters, pc,
                                [count |-> repeats, start_time |-> QInt(-1)])
        IN  IF cc0[pc].count > 0 THEN
                LET t0 == IF cc0[pc].start_time = QInt(-1)
                          THEN st.elapsed_time_s ELSE cc0[pc].start_time
                IN  [st EXCEPT
                       !.cycle_counters = DictPut(cc0, pc,
                            [count |-> cc0[pc].count - 1, start_time |-> t0]),
                       !.pc = start_idx]
            ELSE
                LET cycle_start_time == cc0[pc].start_time
                IN  [st EXCEPT
                       !.cycle_spans = IF cycle_start_time # QInt(-1)
                                       THEN Append(@, <<cycle_start_time, st.elapsed_time_s>>)
                                       ELSE @,
                       !.cycle_counters = DictDel(cc0, pc),
                       !.pc = @ + 1]

\* Body of the loop for a Cycle instruction (lines 624-641).
ExpandCycle(st, instruction) ==
    LET start_idx == instruction.start_phase - 1
        end_idx   == instruction.end_phase - 1
        repeats   == instruction.repeats
        pc        == st.pc
    IN  IF ~(0 <= start_idx /\ start_idx <= end_idx
             /\ end_idx < Len(st.sequence_copy))
        THEN [st EXCEPT !.status = "break"]
        ELSE
        LET cc0 == IF pc \in DOMAIN st.cycle_counters
                   THEN st.cycle_counters
                   ELSE DictPut(st.cycle_counters, pc,
                                [count |-> repeats, start_time |-> QInt(-1)])
        IN  IF cc0[pc].count > 0 THEN
                LET t0 == IF cc0[pc].start_time = QInt(-1)
                          THEN st.elapsed_time_s ELSE cc0[pc].start_time
                IN  [st EXCEPT
                       !.cycle_counters = DictPut(cc0, pc,
                            [count |-> cc0[pc].count - 1, start_time |-> t0]),
                       !.pc = start_idx]
            ELSE
                LET cycle_start_time == cc0[pc].start_time
                IN  [st EXCEPT
                       !.cycle_spans = IF cycle_start_time # QInt(-1)
                                       THEN Append(@, <<cycle_start_time, st.elapsed_time_s>>)
                                       ELSE @,
                       !.cycle_counters = DictDel(cc0, pc),
                       !.pc = @ + 1]

\* One iteration of the while loop of line 574 (a halted state is a fixpoint).
ExpandStep(st, command_interval) ==
    IF ExpandHalted(st) THEN st
    ELSE
    LET instruction == st.sequence_copy[st.pc + 1]
        st1 == IF instruction.type = "Phase"
               THEN ExpandPhase(st, instruction, command_interval)
               ELSE IF instruction.type = "Cycle"
               THEN ExpandCycle(st, instruction)
               ELSE st
    IN  IF st1.status = "loop"
        THEN [st1 EXCEPT !.iterations = @ + 1]
        ELSE st1

\* The while loop: iterate ExpandStep until the loop halts.  n bounds the
\* number of iterations still possible, and halving keeps the evaluation
\* depth logarithmic in it.
RECURSIVE ExpandLoop(_, _, _)
ExpandLoop(st, command_interval, n) ==
    IF ExpandHalted(st) \/ n = 0 THEN st
    ELSE IF n = 1 THEN ExpandStep(st, command_interval)
    ELSE ExpandLoop(ExpandLoop(st, command_interval, n \div 2),
                    command_interval, n - (n \div 2))

\* The returned dict (lines 644-645).
Timeline(st) ==
    [time_points      |-> st.time_points,
     rpm_points       |-> st.rpm_points,
     cycle_spans      |-> st.cycle_spans,
     phase_markers    |-> st.phase_markers,
     phase_directions |-> st.phase_directions]

(***************************************************************************)
(* Protocol driver: MinipulsController                                     *)
(***************************************************************************)
\* self.pump_controller = None
NoController == [present |-> FALSE]

\* MinipulsController.__init__ (lines 59-63).
NewController(debug_mode, command_interval) ==
    [present |-> TRUE, is_connected |-> FALSE, debug_mode |-> debug_mode,
     command_interval |-> command_interval, ser |-> "none"]

Cmd(op, arg) == [op |-> op, arg |-> arg]

\* send_buffered_command without the debug branch of lines 112-116.
send_buffered_command_no_debug(c, command, wait) ==
    IF ~c.is_connected THEN {[cmd |-> command, via |-> "dropped", wait |-> wait]}
    ELSE {[cmd |-> command, via |-> "wire", wait |-> wait],
          [cmd |-> command, via |-> "raise", wait |-> wait]}

\* send_buffered_command (lines 107-122): the ways a call can end on
\* controller c.  "dropped": not connected, an error is logged and nothing is
\* written; "debug": logged only; "wire": written to the serial port;
\* "raise": ser.write raised (the port is closed or the transport failed).
send_buffered_command(c, command, wait) ==
    IF ~c.is_connected THEN {[cmd |-> command, via |-> "dropped", wait |-> wait]}
    ELSE IF c.debug_mode THEN {[cmd |-> command, via |-> "debug", wait |-> wait]}
    ELSE IF c.ser = "open"
         THEN {[cmd |-> command, via |-> "wire", wait |-> wait],
               [cmd |-> command, via |-> "raise", wait |-> wait]}
         ELSE {[cmd |-> command, via |-> "raise", wait |-> wait]}

\* set_speed without the clamp of lines 146-147.
speed_command_unclamped(rpm) == Cmd("R", QTrunc(QMul(rpm, QInt(100))))

\* set_speed (lines 145-149): the clamp and the command text R<int(rpm*100)>.
speed_command(rpm) ==
    LET clamped == IF ~(QLe(QInt(0), rpm) /\ QLe(rpm, QInt(48)))
                   THEN PyMax(QInt(0), PyMin(QInt(48), rpm))
                   ELSE rpm
    IN  Cmd("R", QTrunc(QMul(clamped, QInt(100))))

set_speed(c, rpm, wait) == send_buffered_command(c, speed_command(rpm), wait)

start_forward(c) == send_buffered_command(c, Cmd("K>", 0), FALSE)

start_backward(c) == send_buffered_command(c, Cmd("K<", 0), FALSE)

stop(c) == send_buffered_command(c, Cmd("KH", 0), TRUE)

set_remote_mode(c) == send_buffered_command(c, Cmd("SR", 0), TRUE)

set_keypad_mode(c) == send_buffered_command(c, Cmd("SK", 0), TRUE)

\* connect (lines 65-90).  handshake is what the transport does: "echo" (the
\* unit-select byte comes back), "mismatch" (another byte or a timeout),
\* "open_error" (serial.Serial raises), "io_error" (a write or the read raises
\* after the port was opened; the handler of line 88 does not close it).
connect(c, handshake) ==
    IF c.debug_mode THEN [c EXCEPT !.is_connected = TRUE]
    ELSE IF handshake = "echo" THEN [c EXCEPT !.ser = "open", !.is_connected = TRUE]
    ELSE IF handshake = "mismatch" THEN [c EXCEPT !.ser = "closed"]
    ELSE IF handshake = "io_error" THEN [c EXCEPT !.ser = "open"]
    ELSE c

\* disconnect (lines 92-105): the controllers the call can leave.  When the
\* bus-reset write raises, close() is skipped.
disconnect(c) ==
    IF c.debug_mode THEN {[c EXCEPT !.is_connected = FALSE]}
    ELSE IF c.ser = "open"
         THEN {[c EXCEPT !.ser = "closed", !.is_connected = FALSE],
               [c EXCEPT !.is_connected = FALSE]}
         ELSE {[c EXCEPT !.is_connected = FALSE]}

(***************************************************************************)
(* Bounds and input domains                                                *)
(***************************************************************************)
MaxRuns == 2          \* worker threads started over the life of the window

Handshakes == {"echo", "mismatch", "open_error", "io_error"}

\* Values typed into the command-interval entry (seconds, after line 399).
InputIntervals == {QInt(0), Q(1, 2)}

\* Positions of the manual speed scale (ttk.Scale from 0 to 48, line 1022).
ManualRpms == {Q(2999, 100), QInt(48)}

FixedFwd  == Phase("Forward", "Fixed", Q(24006, 1000), QInt(1), "s")
RampBwd   == Phase("Backward", "Ramp", QInt(60), Q(1, 60), "min")
FixedNeg  == Phase("Backward", "Fixed", QInt(-5), QInt(0), "s")
HoldFwd   == Phase("Forward", "Hold", Q(1234, 100), Q(1, 3600), "hr")

\* Sequences held by the editor when the window is used (built with the
\* dialogs or read from a file by _load_sequence).
Programs ==
    { <<FixedFwd>>,
      <<RampBwd>>,
      <<FixedNeg, HoldFwd>>,
      <<FixedFwd, RampBwd, Cycle(1, 1, 1)>>,
      <<RampBwd, Cycle(1, 3, 1)>> }

\* The Sequence that is run up to MaxRuns times; the others are run once.
RerunPrograms == { <<FixedNeg>> }

Scenarios ==
    {<<s, 1>> : s \in Programs} \cup {<<s, MaxRuns>> : s \in RerunPrograms}

MaxLen == 3           \* steps of a Sequence enumerated in full
MaxRepeats == 2       \* repeats of an enumerated Cycle
MaxCalls == 2         \* calls of the expander that are logged

\* All Sequences of at most MaxLen steps over the given steps.
SeqsOver(steps) == UNION {[1..n -> steps] : n \in 1..MaxLen}

Cycles == {Cycle(a, b, r) : a \in 1..MaxLen, b \in 1..MaxLen, r \in 1..MaxRepeats}

\* The instance of the specification: Cycle(2,3,2) over four Phases.
FourPhases ==
    <<FixedFwd, FixedNeg, FixedFwd, Cycle(2, 3, 2), FixedNeg>>

\* A Cycle whose expansion needs more than max_iterations iterations.
Runaway == <<Cycle(1, 1, 9999), FixedNeg>>

\* Phases whose durations are given in minutes and hours, a Phase of no
\* duration and one of negative duration.
FixedMin == Phase("Forward", "Fixed", QInt(30), Q(1, 120), "min")
RampHr == Phase("Backward", "Ramp", QInt(12), Q(1, 3600), "hr")
FixedBack == Phase("Forward", "Fixed", QInt(5), QInt(-1), "s")

MaxEditLen == 2       \* steps the editor holds in SpecEdit

\* The contents of the fields of an AddPhaseDialog when OK is pressed.
PhaseEntry(direction, mode, rpm, duration, unit) ==
    [direction_cb |-> direction, speed_mode_cb |-> mode, rpm_entry |-> rpm,
     duration_entry |-> duration, unit_combobox |-> unit]

\* The contents of the fields of an AddCycleDialog when OK is pressed.
CycleEntry(start, end, repeats) ==
    [start_entry |-> start, end_entry |-> end, repeats_entry |-> repeats]

\* What the operator types into the dialogs of the editor in SpecEdit: two
\* Phases and a Cycle that are accepted, and entries that are not.
PhaseEntries ==
    { PhaseEntry("Forward", "Fixed", RealText(24006, 3), IntText(1), "s"),
      PhaseEntry("Backward", "Ramp", IntText(12), IntText(1), "s"),
      PhaseEntry("Forward", "Fixed", RealText(4801, 2), IntText(1), "s"),
      PhaseEntry("Backward", "Fixed", IntText(5), IntText(-1), "s"),
      PhaseEntry("Forward", "Fixed", StringText("fast"), IntText(1), "s") }

CycleEntries ==
    { CycleEntry(IntText(1), IntText(1), IntText(1)),
      CycleEntry(IntText(0), IntText(1), IntText(1)),
      CycleEntry(IntText(2), IntText(1), IntText(1)),
      CycleEntry(IntText(1), IntText(1), RealText(15, 1)) }

\* The Sequences the editor starts with in SpecEdit.
EditPrograms == {<<>>, <<FixedFwd, Cycle(1, 1, 1)>>}

\* A Phase object of a JSON document.
PhaseObject(direction, mode, rpm, duration, unit) ==
    << <<"type", StringText("Phase")>>, <<"direction", StringText(direction)>>,
       <<"mode", StringText(mode)>>, <<"rpm", rpm>>, <<"duration", duration>>,
       <<"unit", StringText(unit)>> >>

\* The file read by _load_sequence in SpecEdit, written by hand: a Phase
\* of a mode the dialog does not offer, faster than the dialog accepts.
LoadFiles ==
    { << PhaseObject("Forward", "Hold", IntText(60), IntText(1), "s") >> }

\* Phases whose numbers have few decimals, for the Sequences that are saved.
RampSec == Phase("Backward", "Ramp", QInt(12), QInt(1), "s")
HoldSec == Phase("Forward", "Hold", Q(1234, 100), QInt(1), "s")

\* The Sequences that are saved and loaded in SpecFile.
FilePrograms == {<<FixedFwd, RampSec, Cycle(1, 1, 1)>>, <<HoldSec>>}

\* The Sequences that are run under the monitor in SpecMonitor, and the
\* readings of the clock, in seconds since the start of the run, that the
\* monitor takes.
FixedZero == Phase("Backward", "Fixed", QInt(5), QInt(0), "s")

MonitorPrograms ==
    { <<FixedMin, RampSec>>, <<FixedMin, FixedZero>>, <<FixedBack>>,
      <<Cycle(1, 1, 1)>>, <<HoldSec>> }

ClockReadings == {QInt(0), Q(1, 4), Q(501, 1000), QInt(100)}

\* Sequences and command intervals of the runs of SpecRamp.
RampPrograms == { <<RampSec>>, <<FixedMin, RampSec>>, <<HoldSec, RampSec>> }

RampIntervals == {Q(1, 4), Q(1, 2)}

\* Sequences of the runs of SpecCycle: Cycles inside the range of a later
\* Cycle, overlapping ranges, a Cycle whose range holds itself, Cycles that
\* jump forward, and a Cycle over a Phase of negative duration (as read from
\* a file).
CyclePrograms ==
    { <<FixedMin, Cycle(1, 1, 2), Cycle(1, 2, 1)>>,
      <<FixedMin, Cycle(1, 2, 1), Cycle(1, 1, 2)>>,
      <<HoldSec, RampSec, Cycle(1, 2, 1), Cycle(2, 3, 1)>>,
      <<FixedMin, Cycle(2, 2, 2)>>,
      <<Cycle(1, 1, 1)>>,
      <<Cycle(2, 2, 1), FixedMin>>,
      <<Cycle(2, 2, 1), Cycle(1, 1, 1)>>,
      <<FixedMin, FixedBack, Cycle(2, 2, 1)>> }

\* Sequences of the planning of SpecPlan.
PlanPrograms ==
    SeqsOver({FixedMin, RampHr, Cycle(1, 1, 2), Cycle(1, 2, 1), Cycle(2, 1, 1)})
        \cup {FourPhases, <<FixedNeg, RampBwd, HoldFwd>>, <<FixedFwd, FixedBack>>}

\* Sequences of the single uncancelled runs of SpecRun.
RunPrograms ==
    SeqsOver({FixedFwd, FixedNeg} \cup {c \in Cycles : c.start_phase <= c.end_phase})
        \cup {FourPhases, Runaway, <<RampBwd, HoldFwd, Cycle(1, 2, 1)>>}

(***************************************************************************)
(* State                                                                   *)
(***************************************************************************)
VARIABLES
    sequence_data,        \* self.sequence_data, the live Sequence
    sequence_ids,         \* the identity of each dict held by self.sequence_data
    pump_controller,      \* self.pump_controller, NoController for None
    stop_event,           \* self.stop_event.is_set()
    sequence_is_running,  \* self.sequence_is_running
    sequence_thread,      \* self.sequence_thread: 0 for None, else a thread id
    current_step_num,     \* self.current_step_num (under state_lock)
    plot_data,            \* self.plot_data / self.plan_* of the last run
    total_sequence_time,  \* self.total_sequence_time
    widgets,              \* which buttons are in state NORMAL
    ui,                   \* where the Tk main thread is
    after_finish,         \* queued after(0, self._on_sequence_finish) calls
    thread,               \* the worker threads, by id
    runs_left,            \* runs that may still be started (bounds the model)
    ui_sent,              \* driver calls made by the last callback of the main thread
    expand_log,           \* every call of the expander: arguments and result
    saved_file,           \* the document _save_sequence wrote last, NoFile for none
    after_updater,        \* queued after(UPDATE_INTERVAL_MS, self._periodic_updater) calls
    report                \* what the last callback wrote to the progress bar and the live plot

vars == <<sequence_data, sequence_ids, pump_controller, stop_event, sequence_is_running,
          sequence_thread, current_step_num, plot_data, total_sequence_time,
          widgets, ui, after_finish, thread, runs_left, ui_sent, expand_log,
          saved_file, after_updater, report>>

Threads == 1..MaxRuns

\* A thread object that was not started.  not_connected: the driver has
\* logged "Error: Pump not connected." for a call of this thread.
NoThread ==
    [at |-> "none", sequence |-> <<>>, pc |-> 0, cycle_counters |-> EmptyDict,
     current_rpm |-> QInt(0), elapsed |-> QInt(0), num_steps |-> 0, i |-> 0,
     out |-> <<>>, visits |-> <<>>, errors |-> {}, saw_stop |-> FALSE,
     ids |-> <<>>, not_connected |-> FALSE]

\* threading.Thread.is_alive()
is_alive(w) == thread[w].at \notin {"none", "done", "crashed", "ended"}

\* No file was written.
NoFile == [written |-> FALSE]

\* The last callback wrote nothing to the progress bar or the live plot.
NoReport == [kind |-> "none"]

NoPlan ==
    [time_points |-> <<>>, rpm_points |-> <<>>, cycle_spans |-> <<>>,
     phase_markers |-> <<>>, phase_directions |-> <<>>]

\* _initialize_variables (lines 916-935) and the widget states of
\* _create_widgets; the Sequence is one the editor holds.
Start ==
    /\ sequence_ids = [i \in DOMAIN sequence_data |-> i]
    /\ pump_controller = NoController
    /\ stop_event = FALSE
    /\ sequence_is_running = FALSE
    /\ sequence_thread = 0
    /\ current_step_num = 0
    /\ plot_data = NoPlan
    /\ total_sequence_time = QInt(0)
    /\ widgets = [connect_btn |-> TRUE, disconnect_btn |-> FALSE,
                  set_interval_btn |-> FALSE, manual |-> FALSE,
                  run_seq_btn |-> FALSE, stop_seq_btn |-> FALSE]
    /\ ui = "idle"
    /\ after_finish = 0
    /\ thread = [w \in Threads |-> NoThread]
    /\ ui_sent = <<>>
    /\ expand_log = <<>>
    /\ saved_file = NoFile
    /\ after_updater = 0
    /\ report = NoReport

Init ==
    /\ \E sc \in Scenarios : sequence_data = sc[1] /\ runs_left = sc[2]
    /\ Start

\* The expander taking the default interval whenever the driver is in
\* debug mode.
_get_expanded_sequence_data_debug(seq) ==
    LET command_interval == IF pump_controller.present /\ ~pump_controller.debug_mode
                            THEN pump_controller.command_interval
                            ELSE RAMP_STEP_INTERVAL_S
        st == ExpandLoop(ExpandStart(seq), command_interval, max_iterations)
    IN  [raised |-> st.status = "raise", value |-> Timeline(st),
         sequence_data |-> st.sequence_data,
         command_interval |-> command_interval,
         iterations |-> st.iterations]

\* _get_expanded_sequence_data (lines 559-645) as called on self: the
\* interval comes from the driver if there is one.  raised: the call ended
\* in ZeroDivisionError; sequence_data: the argument as the call leaves it;
\* iterations: the local counter of line 642 when the loop was left.
_get_expanded_sequence_data(seq) ==
    LET command_interval == IF pump_controller.present
                            THEN pump_controller.command_interval
                            ELSE RAMP_STEP_INTERVAL_S
        st == ExpandLoop(ExpandStart(seq), command_interval, max_iterations)
    IN  [raised |-> st.status = "raise", value |-> Timeline(st),
         sequence_data |-> st.sequence_data,
         command_interval |-> command_interval,
         iterations |-> st.iterations]

\* The record kept of one call: the Sequence handed over, the Command
\* Interval of the driver at the call, and what came back.
Logged(seq, r) ==
    [sequence |-> seq,
     command_interval |-> IF pump_controller.present
                          THEN pump_controller.command_interval
                          ELSE RAMP_STEP_INTERVAL_S,
     driver |-> pump_controller,
     raised |-> r.raised, value |-> r.value, iterations |-> r.iterations]

(***************************************************************************)
(* Callbacks of the Tk main thread                                         *)
(***************************************************************************)
\* _connect_pump (lines 394-410) with a valid entry, up to the return of
\* connect() on the new controller, which line 407 has assigned to
\* self.pump_controller.  An entry below 0 is replaced by 0.05 (lines
\* 399-402).
_connect_pump(is_debug, command_interval, handshake) ==
    /\ ui = "idle" /\ widgets.connect_btn
    /\ pump_controller' =
          connect(NewController(is_debug,
                                IF QLt(command_interval, QInt(0)) THEN Q(5, 100)
                                ELSE command_interval),
                  handshake)
    /\ ui' = "connected"
    /\ ui_sent' = <<>>
    /\ report' = NoReport
    /\ UNCHANGED <<saved_file, after_updater, sequence_data, sequence_ids, stop_event, sequence_is_running, sequence_thread,
                   current_step_num, plot_data, total_sequence_time, widgets,
                   after_finish, thread, runs_left, expand_log>>

\* _connect_pump, lines 410-421: what follows the result of connect().
_connect_pump_end ==
    /\ ui = "connected"
    /\ IF pump_controller.is_connected
       THEN /\ widgets' = [widgets EXCEPT !.connect_btn = FALSE,
                             !.disconnect_btn = TRUE, !.set_interval_btn = TRUE,
                             !.manual = TRUE, !.run_seq_btn = TRUE]
            /\ \E r \in set_remote_mode(pump_controller) : ui_sent' = <<r>>
            /\ UNCHANGED pump_controller
       ELSE /\ pump_controller' = NoController
            /\ ui_sent' = <<>>
            /\ UNCHANGED widgets
    /\ ui' = "idle"
    /\ report' = NoReport
    /\ UNCHANGED <<saved_file, after_updater, sequence_data, sequence_ids, stop_event, sequence_is_running, sequence_thread,
                   current_step_num, plot_data, total_sequence_time,
                   after_finish, thread, runs_left, expand_log>>

\* _disconnect_pump (lines 423-430), up to the return of disconnect().  An
\* exception of set_keypad_mode ends the callback.
_disconnect_pump ==
    /\ ui = "idle" /\ widgets.disconnect_btn
    /\ IF pump_controller.present
       THEN \E r \in set_keypad_mode(pump_controller) :
              /\ ui_sent' = <<r>>
              /\ IF r.via = "raise"
                 THEN UNCHANGED <<pump_controller, ui>>
                 ELSE /\ pump_controller' \in disconnect(pump_controller)
                      /\ ui' = "disconnecting"
       ELSE /\ ui' = "disconnecting"
            /\ ui_sent' = <<>>
            /\ UNCHANGED pump_controller
    /\ report' = NoReport
    /\ UNCHANGED <<saved_file, after_updater, sequence_data, sequence_ids, stop_event, sequence_is_running, sequence_thread,
                   current_step_num, plot_data, total_sequence_time, widgets,
                   after_finish, thread, runs_left, expand_log>>

\* _disconnect_pump, from self.pump_controller = None to the end.
_disconnect_pump_end ==
    /\ ui = "disconnecting"
    /\ pump_controller' = NoController
    /\ widgets' = [widgets EXCEPT !.connect_btn = TRUE, !.disconnect_btn = FALSE,
                     !.set_interval_btn = FALSE, !.manual = FALSE,
                     !.run_seq_btn = FALSE]
    /\ ui' = "idle"
    /\ ui_sent' = <<>>
    /\ report' = NoReport
    /\ UNCHANGED <<saved_file, after_updater, sequence_data, sequence_ids, stop_event, sequence_is_running, sequence_thread,
                   current_step_num, plot_data, total_sequence_time,
                   after_finish, thread, runs_left, expand_log>>

\* _set_command_interval (lines 432-446) with a valid entry.
_set_command_interval(command_interval) ==
    /\ ui = "idle" /\ widgets.set_interval_btn
    /\ pump_controller.present /\ pump_controller.is_connected
    /\ pump_controller' = [pump_controller EXCEPT !.command_interval = command_interval]
    /\ ui_sent' = <<>>
    /\ report' = NoReport
    /\ UNCHANGED <<saved_file, after_updater, sequence_data, sequence_ids, stop_event, sequence_is_running, sequence_thread,
                   current_step_num, plot_data, total_sequence_time, widgets, ui,
                   after_finish, thread, runs_left, expand_log>>

\* The driver calls of _manual_start_fwd / _manual_start_rev (lines 448-454):
\* set_speed, then the direction command unless set_speed raised.
ManualStart(rpm, forward) ==
    /\ ui = "idle" /\ widgets.manual
    /\ pump_controller.present
    /\ \E r1 \in set_speed(pump_controller, rpm, TRUE) :
          IF r1.via = "raise" THEN ui_sent' = <<r1>>
          ELSE \E r2 \in (IF forward THEN start_forward(pump_controller)
                                     ELSE start_backward(pump_controller)) :
                  ui_sent' = <<r1, r2>>
    /\ report' = NoReport
    /\ UNCHANGED <<saved_file, after_updater, sequence_data, sequence_ids, pump_controller, stop_event, sequence_is_running,
                   sequence_thread, current_step_num, plot_data,
                   total_sequence_time, widgets, ui, after_finish, thread, runs_left,
                   expand_log>>

_manual_start_fwd(rpm) == ManualStart(rpm, TRUE)

_manual_start_rev(rpm) == ManualStart(rpm, FALSE)

\* _manual_stop (lines 456-457)
_manual_stop ==
    /\ ui = "idle" /\ widgets.manual
    /\ pump_controller.present
    /\ \E r \in stop(pump_controller) : ui_sent' = <<r>>
    /\ report' = NoReport
    /\ UNCHANGED <<saved_file, after_updater, sequence_data, sequence_ids, pump_controller, stop_event, sequence_is_running,
                   sequence_thread, current_step_num, plot_data,
                   total_sequence_time, widgets, ui, after_finish, thread, runs_left,
                   expand_log>>

\* Thread ids are handed out in order.
NextThread ==
    CHOOSE w \in Threads :
        thread[w].at = "none" /\ \A v \in 1..(w - 1) : thread[v].at # "none"

\* _run_sequence (lines 655-658): the emptiness check and the opening of the
\* ConfirmationDialog, whose _create_plot (line 293) expands the Sequence.
RunSequence(logging) ==
    /\ ui = "idle" /\ widgets.run_seq_btn
    /\ runs_left > 0
    /\ logging => Len(expand_log) < MaxCalls
    /\ IF sequence_data = <<>>
       THEN UNCHANGED <<sequence_data, ui, expand_log>>
       ELSE LET e == _get_expanded_sequence_data(sequence_data)
            IN  /\ expand_log' = IF logging
                                  THEN Append(expand_log, Logged(sequence_data, e))
                                  ELSE expand_log
                /\ sequence_data' = e.sequence_data
                /\ ui' = IF e.raised THEN "idle" ELSE "confirm"
    /\ ui_sent' = <<>>
    /\ report' = NoReport
    /\ UNCHANGED <<saved_file, after_updater, sequence_ids, pump_controller, stop_event,
                   sequence_is_running, sequence_thread, current_step_num, plot_data,
                   total_sequence_time, widgets, after_finish, thread, runs_left>>

\* The calls of the expander are logged only where the log is examined.
_run_sequence == RunSequence(FALSE)

_run_sequence_logged == RunSequence(TRUE)

\* _run_sequence (lines 659-661): the operator closes the dialog without
\* confirming.
_run_sequence_cancel ==
    /\ ui = "confirm"
    /\ ui' = "idle"
    /\ ui_sent' = <<>>
    /\ report' = NoReport
    /\ UNCHANGED <<saved_file, after_updater, sequence_data, sequence_ids, pump_controller, stop_event, sequence_is_running,
                   sequence_thread, current_step_num, plot_data,
                   total_sequence_time, widgets, after_finish, thread, runs_left,
                   expand_log>>

\* _run_sequence without the stop_event.clear() of line 683.
_run_sequence_confirm_keep_flag ==
    /\ ui = "confirm"
    /\ LET e == _get_expanded_sequence_data(sequence_data)
           w == NextThread
       IN  /\ sequence_data' = e.sequence_data
           /\ plot_data' = e.value
           /\ total_sequence_time' = e.value.time_points[Len(e.value.time_points)]
           /\ stop_event' = stop_event
           /\ sequence_is_running' = TRUE
           /\ current_step_num' = 0
           /\ thread' = [thread EXCEPT ![w] =
                            [NoThread EXCEPT !.at = "loop", !.sequence = e.sequence_data,
                                             !.ids = sequence_ids]]
           /\ sequence_thread' = w
           /\ runs_left' = runs_left - 1
           /\ widgets' = [widgets EXCEPT !.run_seq_btn = FALSE, !.stop_seq_btn = TRUE]
           /\ ui' = "idle"
    /\ ui_sent' = <<>>
    /\ after_updater' = after_updater + 1
    /\ report' = NoReport
    /\ UNCHANGED <<saved_file, sequence_ids, pump_controller, after_finish, expand_log>>

\* _run_sequence (lines 663-698) after "Confirm & Run": the plan, the reset of
\* the flag and of the runtime state, and the start of the worker thread
\* (lines 701-708 of the worker touch nothing shared).
_run_sequence_confirm ==
    /\ ui = "confirm"
    /\ LET e == _get_expanded_sequence_data(sequence_data)
           w == NextThread
       IN  /\ sequence_data' = e.sequence_data
           /\ plot_data' = e.value
           /\ total_sequence_time' = e.value.time_points[Len(e.value.time_points)]
           /\ stop_event' = FALSE
           /\ sequence_is_running' = TRUE
           /\ current_step_num' = 0
           /\ thread' = [thread EXCEPT ![w] =
                            [NoThread EXCEPT !.at = "loop", !.sequence = e.sequence_data,
                                             !.ids = sequence_ids]]
           /\ sequence_thread' = w
           /\ runs_left' = runs_left - 1
           /\ widgets' = [widgets EXCEPT !.run_seq_btn = FALSE, !.stop_seq_btn = TRUE]
           /\ ui' = "idle"
    /\ ui_sent' = <<>>
    /\ after_updater' = after_updater + 1
    /\ report' = NoReport
    /\ UNCHANGED <<saved_file, sequence_ids, pump_controller, after_finish, expand_log>>

\* _stop_sequence (lines 857-861)
_stop_sequence ==
    /\ ui = "idle" /\ widgets.stop_seq_btn
    /\ stop_event' = IF sequence_thread # 0 /\ is_alive(sequence_thread)
                     THEN TRUE ELSE stop_event
    /\ ui_sent' = <<>>
    /\ report' = NoReport
    /\ UNCHANGED <<saved_file, after_updater, sequence_data, sequence_ids, pump_controller, sequence_is_running,
                   sequence_thread, current_step_num, plot_data,
                   total_sequence_time, widgets, ui, after_finish, thread, runs_left,
                   expand_log>>

\* _run_sequence, lines 670-678: the factor from seconds to the unit of the
\* live plot, which depends on the planned time alone.
time_factor(total) ==
    IF QLt(total, QInt(120)) THEN QInt(1)
    ELSE IF QLt(total, QInt(7200)) THEN Q(1, 60)
    ELSE Q(1, 3600)

\* _update_progress (lines 831-839): the value of the progress bar and the
\* numbers of the two labels.
_update_progress(step_num, elapsed_time, total_time) ==
    [step |-> IF step_num > Len(sequence_data) THEN Len(sequence_data) ELSE step_num,
     steps |-> Len(sequence_data),
     elapsed |-> elapsed_time,
     total |-> total_time]

\* _update_live_plot (lines 1158-1172) with the plot libraries present: the
\* point the curve is drawn to, in the colour of the direction.
_update_live_plot(time_scaled, rpm, direction) ==
    [time |-> time_scaled, rpm |-> rpm, direction |-> direction]

\* The planned direction with the end of an interval compared exactly.
planned_direction_exact(plan_directions, elapsed_time) ==
    LET hits == {k \in DOMAIN plan_directions :
                    QLe(elapsed_time, plan_directions[k].end_time)}
    IN  IF hits = {} THEN "Forward"
        ELSE plan_directions[CHOOSE k \in hits : \A j \in hits : k <= j].direction

\* _periodic_updater, lines 808-814: the direction of the first interval
\* of the plan that ends no earlier than a millisecond before elapsed_time,
\* "Forward" when there is none.
planned_direction(plan_directions, elapsed_time) ==
    LET hits == {k \in DOMAIN plan_directions :
                    QLe(elapsed_time, QAdd(plan_directions[k].end_time, Q(1, 1000)))}
    IN  IF hits = {} THEN "Forward"
        ELSE plan_directions[CHOOSE k \in hits : \A j \in hits : k <= j].direction

\* np.interp(x, xp, fp) (line 820), as a set of possible values: for xp in
\* increasing order the value at the ends outside of it and the linear
\* interpolation inside; numpy does not define the result for any other xp,
\* which is taken to be some sample of fp.
np_interp(x, xp, fp) ==
    LET n == Len(xp)
    IN  IF \E j \in 1..(n - 1) : QLt(xp[j + 1], xp[j]) THEN {fp[j] : j \in 1..n}
        ELSE IF QLt(xp[n], x) THEN {fp[n]}
        ELSE IF QLt(x, xp[1]) THEN {fp[1]}
        ELSE LET j == CHOOSE j \in 1..n :
                          QLe(xp[j], x) /\ (j = n \/ QLt(x, xp[j + 1]))
             IN  IF j = n \/ xp[j] = x THEN {fp[j]}
                 ELSE {QAdd(fp[j], QDiv(QMul(QSub(fp[j + 1], fp[j]), QSub(x, xp[j])),
                                        QSub(xp[j + 1], xp[j])))}

\* _periodic_updater (lines 798-829), run by the event loop for a queued
\* after(UPDATE_INTERVAL_MS, ...), with now the reading of
\* time.perf_counter() - self.sequence_start_time.
_periodic_updater(now) ==
    /\ ui \in {"idle", "confirm"}
    /\ after_updater > 0
    /\ IF ~sequence_is_running
       THEN /\ report' = NoReport
            /\ after_updater' = after_updater - 1
       ELSE LET elapsed_time == IF QLe(total_sequence_time, now)
                                THEN total_sequence_time ELSE now
                direction == planned_direction(plot_data.phase_directions, elapsed_time)
                rpms == IF plot_data.time_points # <<>>
                        THEN np_interp(elapsed_time, plot_data.time_points,
                                       plot_data.rpm_points)
                        ELSE {QInt(0)}
            IN  /\ \E planned_rpm \in rpms :
                      report' = [kind |-> "periodic",
                                 progress |-> _update_progress(current_step_num,
                                                 elapsed_time, total_sequence_time),
                                 plot |-> <<_update_live_plot(
                                     QMul(elapsed_time, time_factor(total_sequence_time)),
                                     planned_rpm, direction)>>]
                /\ after_updater' = after_updater
    /\ ui_sent' = <<>>
    /\ UNCHANGED <<saved_file, sequence_data, sequence_ids, pump_controller, stop_event,
                   sequence_is_running, sequence_thread, current_step_num, plot_data,
                   total_sequence_time, widgets, ui, after_finish, thread, runs_left,
                   expand_log>>

\* _on_sequence_finish (lines 841-855), run by the event loop for a queued
\* after(0, ...); the loop also runs while the ConfirmationDialog is open.
_on_sequence_finish ==
    /\ ui \in {"idle", "confirm"}
    /\ after_finish > 0
    /\ after_finish' = after_finish - 1
    /\ IF sequence_is_running
       THEN /\ sequence_is_running' = FALSE
            /\ widgets' = [widgets EXCEPT !.run_seq_btn = TRUE, !.stop_seq_btn = FALSE]
            /\ report' =
                  [kind |-> "final",
                   progress |-> _update_progress(Len(sequence_data),
                                   total_sequence_time, total_sequence_time),
                   plot |-> IF plot_data.phase_directions # <<>>
                            THEN LET final_rpm ==
                                        IF plot_data.rpm_points # <<>>
                                        THEN plot_data.rpm_points[Len(plot_data.rpm_points)]
                                        ELSE QInt(0)
                                     final_direction ==
                                        plot_data.phase_directions[
                                            Len(plot_data.phase_directions)].direction
                                 IN  <<_update_live_plot(
                                        QMul(total_sequence_time,
                                             time_factor(total_sequence_time)),
                                        final_rpm, final_direction)>>
                            ELSE <<>>]
       ELSE /\ report' = NoReport
            /\ UNCHANGED <<sequence_is_running, widgets>>
    /\ ui_sent' = <<>>
    /\ UNCHANGED <<saved_file, after_updater, sequence_data, sequence_ids, pump_controller, stop_event, sequence_thread,
                   current_step_num, plot_data, total_sequence_time, ui, thread, runs_left, expand_log>>

(***************************************************************************)
(* The sequence editor                                                     *)
(***************************************************************************)
\* The identities of the dicts some list still refers to: the editor's list
\* and the list each worker was handed.
IdsInUse ==
    {sequence_ids[i] : i \in DOMAIN sequence_ids}
        \cup UNION {{thread[w].ids[j] : j \in DOMAIN thread[w].ids} : w \in Threads}

\* The identity of a newly created dict: one that no live dict has.
NewId(used) ==
    CHOOSE n \in 1..(Cardinality(used) + 1) :
        n \notin used /\ \A m \in 1..(n - 1) : m \in used

\* The identities of n newly created dicts.
RECURSIVE NewIds(_, _)
NewIds(used, n) ==
    IF n = 0 THEN <<>>
    ELSE <<NewId(used)>> \o NewIds(used \cup {NewId(used)}, n - 1)

\* What an editor callback leaves alone besides the worker threads.
EditorVars == <<pump_controller, stop_event, sequence_is_running, sequence_thread,
                current_step_num, plot_data, total_sequence_time, widgets, ui,
                after_finish, runs_left, expand_log, saved_file, after_updater>>

\* _add_phase (lines 459-463) with the result the dialog was closed with:
\* a new dict is appended to the list, None changes nothing.
_add_phase(result) ==
    /\ ui = "idle"
    /\ Len(sequence_data) < MaxEditLen
    /\ IF result # NoResult
       THEN /\ sequence_data' = Append(sequence_data, result)
            /\ sequence_ids' = Append(sequence_ids, NewId(IdsInUse))
       ELSE UNCHANGED <<sequence_data, sequence_ids>>
    /\ ui_sent' = <<>>
    /\ report' = NoReport
    /\ UNCHANGED <<EditorVars, thread>>

\* _add_cycle (lines 465-469) with the result the dialog was closed with.
_add_cycle(result) ==
    /\ ui = "idle"
    /\ Len(sequence_data) < MaxEditLen
    /\ IF result # NoResult
       THEN /\ sequence_data' = Append(sequence_data, result)
            /\ sequence_ids' = Append(sequence_ids, NewId(IdsInUse))
       ELSE UNCHANGED <<sequence_data, sequence_ids>>
    /\ ui_sent' = <<>>
    /\ report' = NoReport
    /\ UNCHANGED <<EditorVars, thread>>

\* The edit written into the dict the list holds, seen by every list that
\* refers to that dict.
_edit_item_in_place(index, result) ==
    /\ ui = "idle"
    /\ index \in DOMAIN sequence_data
    /\ result.type \in {sequence_data[index].type, "None"}
    /\ IF result # NoResult
       THEN /\ sequence_data' = [sequence_data EXCEPT ![index] = result]
            /\ thread' = [w \in Threads |->
                            [thread[w] EXCEPT !.sequence =
                                [j \in DOMAIN thread[w].sequence |->
                                    IF thread[w].ids[j] = sequence_ids[index]
                                    THEN result ELSE thread[w].sequence[j]]]]
       ELSE UNCHANGED <<sequence_data, thread>>
    /\ sequence_ids' = sequence_ids
    /\ ui_sent' = <<>>
    /\ report' = NoReport
    /\ UNCHANGED EditorVars

\* _edit_item (lines 471-483) on the step at index (1-based here), with the
\* result the dialog of that step's type was closed with: the slot of the
\* list is given the dialog's new dict, None changes nothing.
_edit_item(index, result) ==
    /\ ui = "idle"
    /\ index \in DOMAIN sequence_data
    /\ result.type \in {sequence_data[index].type, "None"}
    /\ IF result # NoResult
       THEN /\ sequence_data' = [sequence_data EXCEPT ![index] = result]
            /\ sequence_ids' = [sequence_ids EXCEPT ![index] = NewId(IdsInUse)]
       ELSE UNCHANGED <<sequence_data, sequence_ids>>
    /\ ui_sent' = <<>>
    /\ report' = NoReport
    /\ UNCHANGED <<EditorVars, thread>>

\* _move_item (lines 485-505): the selected step changes places with its
\* neighbour; at the end of the list nothing happens.
_move_item(index, direction) ==
    /\ ui = "idle"
    /\ index \in DOMAIN sequence_data
    /\ LET other == IF direction = "up" THEN index - 1 ELSE index + 1
       IN  /\ other \in DOMAIN sequence_data
           /\ sequence_data' = [sequence_data EXCEPT ![index] = sequence_data[other],
                                                     ![other] = sequence_data[index]]
           /\ sequence_ids' = [sequence_ids EXCEPT ![index] = sequence_ids[other],
                                                   ![other] = sequence_ids[index]]
    /\ ui_sent' = <<>>
    /\ report' = NoReport
    /\ UNCHANGED <<EditorVars, thread>>

\* s without the elements at the positions in gone.
RECURSIVE Without(_, _)
Without(s, gone) ==
    IF s = <<>> THEN <<>>
    ELSE Without(SubSeq(s, 1, Len(s) - 1), gone)
            \o (IF Len(s) \in gone THEN <<>> ELSE <<s[Len(s)]>>)

\* _remove_item (lines 507-514) with the question answered by yes: the
\* selected steps are deleted from the list.
_remove_item(selected) ==
    /\ ui = "idle"
    /\ selected # {} /\ selected \subseteq DOMAIN sequence_data
    /\ sequence_data' = Without(sequence_data, selected)
    /\ sequence_ids' = Without(sequence_ids, selected)
    /\ ui_sent' = <<>>
    /\ report' = NoReport
    /\ UNCHANGED <<EditorVars, thread>>

\* _clear_sequence (lines 516-519) with the question answered by yes.
_clear_sequence ==
    /\ ui = "idle"
    /\ sequence_data' = <<>>
    /\ sequence_ids' = <<>>
    /\ ui_sent' = <<>>
    /\ report' = NoReport
    /\ UNCHANGED <<EditorVars, thread>>

\* _save_sequence (lines 863-871) with a file chosen: the document of the
\* list is written to it.
_save_sequence ==
    /\ ui = "idle"
    /\ saved_file' = [written |-> TRUE, document |-> json_dump(sequence_data)]
    /\ ui_sent' = <<>>
    /\ report' = NoReport
    /\ UNCHANGED <<sequence_data, sequence_ids, pump_controller, stop_event,
                   sequence_is_running, sequence_thread, current_step_num, plot_data,
                   total_sequence_time, widgets, ui, after_finish, thread, runs_left,
                   expand_log, after_updater>>

\* _load_sequence (lines 873-882) of a file that parses: self.sequence_data
\* is bound to the list json.load has built.
_load_sequence(document) ==
    /\ ui = "idle"
    /\ sequence_data' = json_load(document)
    /\ sequence_ids' = NewIds(IdsInUse, Len(document))
    /\ ui_sent' = <<>>
    /\ report' = NoReport
    /\ UNCHANGED <<EditorVars, thread>>

(***************************************************************************)
(* The worker thread: _sequence_worker and _execute_phase                  *)
(***************************************************************************)
UiVars == <<sequence_data, sequence_ids, pump_controller, sequence_is_running, sequence_thread,
            plot_data, total_sequence_time, widgets, ui, runs_left, expand_log,
            saved_file, after_updater>>

\* A step of a worker thread or of the clock: no callback of the main thread
\* has just run.
NoCallback == ui_sent' = <<>> /\ report' = NoReport /\ UNCHANGED UiVars

\* The instruction at the worker's pc.
Instruction(th) == th.sequence[th.pc + 1]

\* duration_s of _execute_phase (lines 749-753).
phase_duration_s(phase) ==
    IF phase.unit = "min" THEN QMul(phase.duration, QInt(60))
    ELSE IF phase.unit = "hr" THEN QMul(phase.duration, QInt(3600))
    ELSE phase.duration

\* num_steps of _execute_phase (lines 768-770), cmd_interval # 0 whenever
\* duration_s > 0.
phase_num_steps(duration_s, cmd_interval) ==
    LET n == IF QLt(QInt(0), duration_s)
             THEN QTrunc(QDiv(duration_s, cmd_interval))
             ELSE 1
    IN  IF n = 0 THEN 1 ELSE n

\* target_time - phase_start_time of ramp step i (line 773).
ramp_target_time(th, i) ==
    QMul(QInt(i), QDiv(phase_duration_s(Instruction(th)), QInt(th.num_steps)))

\* current_rpm_in_phase of ramp step i (lines 774-775).
ramp_rpm(th, i) ==
    QAdd(th.current_rpm,
         QMul(QSub(Instruction(th).rpm, th.current_rpm), Q(i, th.num_steps)))

\* _execute_phase returns rpm: back in the loop of the worker (lines 717-718).
PhaseReturn(th, rpm) ==
    [th EXCEPT !.current_rpm = rpm, !.pc = @ + 1, !.at = "loop",
               !.elapsed = QInt(0), !.num_steps = 0, !.i = 0]

\* A call of the driver that raises when the driver is not connected.
DriverCall_not_connected_raises(w, calls, after) ==
    IF ~pump_controller.present
    THEN thread' = [thread EXCEPT ![w].at = "crashed"]
    ELSE \E r \in calls :
            thread' = [thread EXCEPT ![w] =
                IF r.via \in {"raise", "dropped"}
                THEN [thread[w] EXCEPT !.at = "crashed", !.out = Append(@, r.cmd)]
                ELSE [after EXCEPT !.out = Append(@, r.cmd)]]

\* A driver call self.pump_controller.<method>(...) made by worker w: calls
\* is the set of ways the call can end on the controller there is, after is
\* the worker once the call has returned.  With pump_controller None the
\* attribute access raises; an exception ends the thread.
DriverCall(w, calls, after) ==
    IF ~pump_controller.present
    THEN thread' = [thread EXCEPT ![w].at = "crashed"]
    ELSE \E r \in calls :
            thread' = [thread EXCEPT ![w] =
                IF r.via = "raise"
                THEN [thread[w] EXCEPT !.at = "crashed", !.out = Append(@, r.cmd)]
                ELSE [after EXCEPT !.out = Append(@, r.cmd),
                                   !.not_connected = @ \/ (r.via = "dropped")]]

\* The loop of _sequence_worker with a Cycle that jumps back without
\* spending one of its repeats.
worker_loop_no_decrement(w) ==
    LET th == thread[w] IN
    /\ th.at = "loop"
    /\ IF th.pc < Len(th.sequence) /\ ~stop_event
       THEN LET instruction == Instruction(th)
            IN  /\ current_step_num' = th.pc + 1
                /\ IF instruction.type = "Phase"
                   THEN thread' = [thread EXCEPT ![w].at = "ep_check"]
                   ELSE IF instruction.type = "Cycle"
                   THEN LET start_idx == instruction.start_phase - 1
                            end_idx   == instruction.end_phase - 1
                            cc == IF th.pc \in DOMAIN th.cycle_counters
                                  THEN th.cycle_counters
                                  ELSE DictPut(th.cycle_counters, th.pc, instruction.repeats)
                        IN  IF ~(0 <= start_idx /\ start_idx <= end_idx
                                 /\ end_idx < Len(th.sequence))
                            THEN thread' = [thread EXCEPT ![w].at = "final",
                                    ![w].errors = @ \cup {"Invalid phase range in Cycle"}]
                            ELSE IF cc[th.pc] > 0
                            THEN thread' = [thread EXCEPT
                                    ![w].cycle_counters = cc,
                                    ![w].pc = start_idx]
                            ELSE thread' = [thread EXCEPT
                                    ![w].cycle_counters = DictDel(cc, th.pc),
                                    ![w].pc = @ + 1]
                   ELSE UNCHANGED thread
       ELSE /\ thread' = [thread EXCEPT ![w].at = "final",
                            ![w].saw_stop = @ \/ (th.pc < Len(th.sequence) /\ stop_event)]
            /\ UNCHANGED current_step_num
    /\ UNCHANGED <<stop_event, after_finish>>
    /\ NoCallback

\* One evaluation of the loop of _sequence_worker (lines 710-733): the while
\* test, the step number, and the whole of a Cycle instruction.
worker_loop(w) ==
    LET th == thread[w] IN
    /\ th.at = "loop"
    /\ IF th.pc < Len(th.sequence) /\ ~stop_event
       THEN LET instruction == Instruction(th)
            IN  /\ current_step_num' = th.pc + 1
                /\ IF instruction.type = "Phase"
                   THEN thread' = [thread EXCEPT ![w].at = "ep_check"]
                   ELSE IF instruction.type = "Cycle"
                   THEN LET start_idx == instruction.start_phase - 1
                            end_idx   == instruction.end_phase - 1
                            cc == IF th.pc \in DOMAIN th.cycle_counters
                                  THEN th.cycle_counters
                                  ELSE DictPut(th.cycle_counters, th.pc, instruction.repeats)
                        IN  IF ~(0 <= start_idx /\ start_idx <= end_idx
                                 /\ end_idx < Len(th.sequence))
                            THEN thread' = [thread EXCEPT ![w].at = "final",
                                    ![w].errors = @ \cup {"Invalid phase range in Cycle"}]
                            ELSE IF cc[th.pc] > 0
                            THEN thread' = [thread EXCEPT
                                    ![w].cycle_counters = DictPut(cc, th.pc, cc[th.pc] - 1),
                                    ![w].pc = start_idx]
                            ELSE thread' = [thread EXCEPT
                                    ![w].cycle_counters = DictDel(cc, th.pc),
                                    ![w].pc = @ + 1]
                   ELSE UNCHANGED thread
       ELSE /\ thread' = [thread EXCEPT ![w].at = "final",
                            ![w].saw_stop = @ \/ (th.pc < Len(th.sequence) /\ stop_event)]
            /\ UNCHANGED current_step_num
    /\ UNCHANGED <<stop_event, after_finish>>
    /\ NoCallback

\* _execute_phase, line 742: the check on entry.
phase_check(w) ==
    LET th == thread[w] IN
    /\ th.at = "ep_check"
    /\ thread' = [thread EXCEPT ![w] =
          IF stop_event
          THEN [PhaseReturn(th, th.current_rpm) EXCEPT !.saw_stop = TRUE]
          ELSE [th EXCEPT !.at = "ep_dir", !.visits = Append(@, th.pc + 1)]]
    /\ UNCHANGED <<stop_event, after_finish, current_step_num>>
    /\ NoCallback

\* _execute_phase, lines 744-756: the direction command and the reading of
\* phase_start_time.
phase_direction(w) ==
    LET th == thread[w]
        mode == Instruction(th).mode
        after == [th EXCEPT !.elapsed = QInt(0),
                            !.at = IF mode = "Fixed" THEN "fixed_send"
                                   ELSE IF mode = "Ramp" THEN "ramp_init"
                                   ELSE "ep_end"]
    IN
    /\ th.at = "ep_dir"
    /\ IF Instruction(th).direction = "Forward"
       THEN DriverCall(w, start_forward(pump_controller), after)
       ELSE DriverCall(w, start_backward(pump_controller), after)
    /\ UNCHANGED <<stop_event, after_finish, current_step_num>>
    /\ NoCallback

\* The speed command of a Fixed phase issued a second time.
fixed_send_twice(w) ==
    LET th == thread[w] IN
    /\ th.at = "fixed_send"
    /\ DriverCall(w, set_speed(pump_controller, Instruction(th).rpm, FALSE),
                  [th EXCEPT !.at = "fixed_wait",
                             !.out = Append(@, speed_command(Instruction(th).rpm))])
    /\ UNCHANGED <<stop_event, after_finish, current_step_num>>
    /\ NoCallback

\* _execute_phase, line 759: the speed command of a Fixed phase.
fixed_send(w) ==
    LET th == thread[w] IN
    /\ th.at = "fixed_send"
    /\ DriverCall(w, set_speed(pump_controller, Instruction(th).rpm, FALSE),
                  [th EXCEPT !.at = "fixed_wait"])
    /\ UNCHANGED <<stop_event, after_finish, current_step_num>>
    /\ NoCallback

\* _execute_phase, lines 761-764: the hold loop is left when end_time is
\* reached or when the flag is seen; otherwise it waits another slice.
fixed_wait(w) ==
    LET th == thread[w]
        timeup == ~QLt(th.elapsed, phase_duration_s(Instruction(th)))
    IN
    /\ th.at = "fixed_wait"
    /\ timeup \/ stop_event
    /\ thread' = [thread EXCEPT ![w].at = "ep_end",
                                ![w].saw_stop = @ \/ (~timeup /\ stop_event)]
    /\ UNCHANGED <<stop_event, after_finish, current_step_num>>
    /\ NoCallback

\* _execute_phase, lines 767-771: the step count of a Ramp, from the
\* driver's current interval.
ramp_init(w) ==
    LET th == thread[w]
        duration_s == phase_duration_s(Instruction(th))
    IN
    /\ th.at = "ramp_init"
    /\ IF ~pump_controller.present
          \/ (QLt(QInt(0), duration_s) /\ pump_controller.command_interval = QInt(0))
       THEN thread' = [thread EXCEPT ![w].at = "crashed"]
       ELSE thread' = [thread EXCEPT ![w].at = "ramp_wait", ![w].i = 1,
               ![w].num_steps = phase_num_steps(duration_s,
                                                pump_controller.command_interval)]
    /\ UNCHANGED <<stop_event, after_finish, current_step_num>>
    /\ NoCallback

\* _execute_phase, lines 773-779: the wait for target_time of step i.  The
\* wait returns at target_time, or at once with True when the flag is set.
ramp_wait(w) ==
    LET th == thread[w]
        due == ~QLt(th.elapsed, ramp_target_time(th, th.i))
    IN
    /\ th.at = "ramp_wait"
    /\ due \/ stop_event
    /\ thread' = [thread EXCEPT ![w] =
          IF due THEN [th EXCEPT !.at = "ramp_check"]
          ELSE [th EXCEPT !.at = "ep_end", !.saw_stop = TRUE]]
    /\ UNCHANGED <<stop_event, after_finish, current_step_num>>
    /\ NoCallback

\* _execute_phase, lines 780-781: the check before the speed command.
ramp_check(w) ==
    LET th == thread[w] IN
    /\ th.at = "ramp_check"
    /\ thread' = [thread EXCEPT ![w] =
          IF stop_event THEN [th EXCEPT !.at = "ep_end", !.saw_stop = TRUE]
          ELSE [th EXCEPT !.at = "ramp_send"]]
    /\ UNCHANGED <<stop_event, after_finish, current_step_num>>
    /\ NoCallback

\* The speed command of ramp step i with the step count taken again from the
\* driver's interval at the time of the step.
ramp_send_live(w) ==
    LET th == thread[w]
        live == IF pump_controller.present
                   /\ pump_controller.command_interval # QInt(0)
                THEN [th EXCEPT !.num_steps =
                         phase_num_steps(phase_duration_s(Instruction(th)),
                                         pump_controller.command_interval)]
                ELSE th
    IN
    /\ th.at = "ramp_send"
    /\ \E current_rpm_in_phase \in {ramp_rpm(live, th.i)} :
          DriverCall(w, set_speed(pump_controller, current_rpm_in_phase, FALSE),
                     [live EXCEPT !.i = @ + 1,
                                  !.at = IF th.i + 1 > live.num_steps THEN "ep_end"
                                         ELSE "ramp_wait"])
    /\ UNCHANGED <<stop_event, after_finish, current_step_num>>
    /\ NoCallback

\* _execute_phase, line 782: the speed command of ramp step i, then the next i.
ramp_send(w) ==
    LET th == thread[w] IN
    /\ th.at = "ramp_send"
    /\ \E current_rpm_in_phase \in {ramp_rpm(th, th.i)} :
          DriverCall(w, set_speed(pump_controller, current_rpm_in_phase, FALSE),
                     [th EXCEPT !.i = @ + 1,
                                !.at = IF th.i + 1 > th.num_steps THEN "ep_end"
                                       ELSE "ramp_wait"])
    /\ UNCHANGED <<stop_event, after_finish, current_step_num>>
    /\ NoCallback

\* _execute_phase, lines 784-796: the last check and the value returned.
phase_end(w) ==
    LET th == thread[w]
        phase == Instruction(th)
        duration_s == phase_duration_s(phase)
    IN
    /\ th.at = "ep_end"
    /\ thread' = [thread EXCEPT ![w] =
          IF ~stop_event
          THEN IF QLt(th.elapsed, duration_s)
               THEN [th EXCEPT !.at = "ep_residual"]
               ELSE PhaseReturn(th, phase.rpm)
          ELSE [(IF phase.mode = "Ramp" /\ QLt(QInt(0), duration_s)
                 THEN LET ramp_fraction == PyMin(QInt(1), QDiv(th.elapsed, duration_s))
                      IN  PhaseReturn(th, QAdd(th.current_rpm,
                              QMul(QSub(phase.rpm, th.current_rpm), ramp_fraction)))
                 ELSE PhaseReturn(th, phase.rpm))
                EXCEPT !.saw_stop = TRUE]]
    /\ UNCHANGED <<stop_event, after_finish, current_step_num>>
    /\ NoCallback

\* _execute_phase, lines 787-789: stop_event.wait(remaining) returns at the
\* end of the phase, or earlier when the flag is set; its result is not used.
phase_residual(w) ==
    LET th == thread[w] IN
    /\ th.at = "ep_residual"
    /\ stop_event \/ ~QLt(th.elapsed, phase_duration_s(Instruction(th)))
    /\ thread' = [thread EXCEPT ![w] = PhaseReturn(th, Instruction(th).rpm)]
    /\ UNCHANGED <<stop_event, after_finish, current_step_num>>
    /\ NoCallback

\* The closing check with the stop command withheld after an abort.
worker_final_silent_abort(w) ==
    LET th == thread[w] IN
    /\ th.at = "final"
    /\ IF stop_event \/ th.errors # {}
       THEN thread' = [thread EXCEPT ![w].at = "post",
                                     ![w].saw_stop = @ \/ stop_event]
       ELSE DriverCall(w, stop(pump_controller), [th EXCEPT !.at = "post"])
    /\ UNCHANGED <<stop_event, after_finish, current_step_num>>
    /\ NoCallback

\* _sequence_worker, lines 735-737: the stop command unless the flag is set.
worker_final(w) ==
    LET th == thread[w] IN
    /\ th.at = "final"
    /\ IF stop_event
       THEN thread' = [thread EXCEPT ![w].at = "post", ![w].saw_stop = TRUE]
       ELSE DriverCall(w, stop(pump_controller), [th EXCEPT !.at = "post"])
    /\ UNCHANGED <<stop_event, after_finish, current_step_num>>
    /\ NoCallback

\* _sequence_worker, line 739: self.after(0, self._on_sequence_finish); the
\* thread ends.
worker_post(w) ==
    /\ thread[w].at = "post"
    /\ thread' = [thread EXCEPT ![w].at = "done"]
    /\ after_finish' = after_finish + 1
    /\ UNCHANGED <<stop_event, current_step_num>>
    /\ NoCallback

\* The thread object after _sequence_worker has returned or raised: its
\* locals are gone, and its history is no longer followed.
worker_exit(w) ==
    /\ thread[w].at \in {"done", "crashed"}
    /\ thread' = [thread EXCEPT ![w] = [NoThread EXCEPT !.at = "ended"]]
    /\ UNCHANGED <<stop_event, after_finish, current_step_num>>
    /\ NoCallback

(***************************************************************************)
(* Time                                                                    *)
(***************************************************************************)
\* The worker is between the reading of phase_start_time and the return of
\* _execute_phase.
InPhase(th) ==
    th.at \in {"fixed_send", "fixed_wait", "ramp_init", "ramp_wait", "ramp_check",
               "ramp_send", "ep_end", "ep_residual"}

\* The times, since phase_start_time, the worker compares the clock with.
Deadlines(th) ==
    IF ~InPhase(th) THEN {}
    ELSE IF th.num_steps > 0
         THEN {ramp_target_time(th, k) : k \in 1..th.num_steps}
         ELSE {phase_duration_s(Instruction(th))}

\* Time passes until a deadline of some worker; a worker's phase clock is
\* not followed past the end of its phase.
Tick ==
    /\ \E w \in Threads : \E d \in Deadlines(thread[w]) :
          /\ QLt(thread[w].elapsed, d)
          /\ LET delta == QSub(d, thread[w].elapsed)
             IN  thread' = [v \in Threads |->
                    IF ~InPhase(thread[v]) THEN thread[v]
                    ELSE LET dur == phase_duration_s(Instruction(thread[v]))
                             now == QAdd(thread[v].elapsed, delta)
                         IN  [thread[v] EXCEPT !.elapsed =
                                 IF QLt(dur, now)
                                 THEN (IF QLt(dur, thread[v].elapsed)
                                       THEN thread[v].elapsed ELSE dur)
                                 ELSE now]]
    /\ UNCHANGED <<stop_event, after_finish, current_step_num>>
    /\ NoCallback

(***************************************************************************)
(* Specification                                                           *)
(***************************************************************************)
Worker(w) ==
    \/ worker_loop(w)
    \/ phase_check(w)
    \/ phase_direction(w)
    \/ fixed_send(w)
    \/ fixed_wait(w)
    \/ ramp_init(w)
    \/ ramp_wait(w)
    \/ ramp_check(w)
    \/ ramp_send(w)
    \/ phase_end(w)
    \/ phase_residual(w)
    \/ worker_final(w)
    \/ worker_post(w)
    \/ worker_exit(w)

Next ==
    \/ \E d \in BOOLEAN, ci \in InputIntervals, h \in Handshakes : _connect_pump(d, ci, h)
    \/ _connect_pump_end
    \/ _disconnect_pump
    \/ _disconnect_pump_end
    \/ \E ci \in InputIntervals : _set_command_interval(ci)
    \/ \E rpm \in ManualRpms : _manual_start_fwd(rpm)
    \/ \E rpm \in ManualRpms : _manual_start_rev(rpm)
    \/ _manual_stop
    \/ _run_sequence
    \/ _run_sequence_cancel
    \/ _run_sequence_confirm
    \/ _stop_sequence
    \/ _on_sequence_finish
    \/ \E w \in Threads : Worker(w)
    \/ Tick

Spec == Init /\ [][Next]_vars

\* One run of a Sequence that nobody cancels: the operator connects, starts
\* the run and then leaves the window alone.
InitRun ==
    /\ sequence_data \in RunPrograms
    /\ runs_left = 1
    /\ Start

NextRun ==
    \/ \E d \in BOOLEAN : _connect_pump(d, Q(1, 2), "echo")
    \/ _connect_pump_end
    \/ _run_sequence
    \/ _run_sequence_confirm
    \/ _on_sequence_finish
    \/ \E w \in Threads : Worker(w)
    \/ Tick

SpecRun == InitRun /\ [][NextRun]_vars

\* The planning side alone: the operator connects, disconnects, changes the
\* Command Interval, drives the pump by hand, and opens and closes the
\* confirmation dialog, which expands the Sequence each time.
InitPlan ==
    /\ sequence_data \in PlanPrograms
    /\ runs_left = 1
    /\ Start

NextPlan ==
    \/ \E d \in BOOLEAN, ci \in InputIntervals : _connect_pump(d, ci, "echo")
    \/ _connect_pump_end
    \/ _disconnect_pump
    \/ _disconnect_pump_end
    \/ \E ci \in InputIntervals : _set_command_interval(ci)
    \/ \E rpm \in ManualRpms : _manual_start_fwd(rpm)
    \/ _manual_stop
    \/ _run_sequence_logged
    \/ _run_sequence_cancel

SpecPlan == InitPlan /\ [][NextPlan]_vars

\* The editor used before and during one run: the operator connects in
\* debug mode, edits the Sequence, starts the run and goes on editing.
InitEdit ==
    /\ sequence_data \in EditPrograms
    /\ runs_left = 1
    /\ Start

NextEdit ==
    \/ _connect_pump(TRUE, Q(1, 2), "echo")
    \/ _connect_pump_end
    \/ \E entry \in PhaseEntries : _add_phase(AddPhaseDialog_on_ok(entry))
    \/ \E entry \in CycleEntries : _add_cycle(AddCycleDialog_on_ok(entry))
    \/ \E index \in 1..MaxEditLen :
          \/ \E entry \in PhaseEntries : _edit_item(index, AddPhaseDialog_on_ok(entry))
          \/ \E entry \in CycleEntries : _edit_item(index, AddCycleDialog_on_ok(entry))
    \/ \E index \in 1..MaxEditLen, direction \in {"up", "down"} :
          _move_item(index, direction)
    \/ \E selected \in SUBSET (1..MaxEditLen) : _remove_item(selected)
    \/ _clear_sequence
    \/ \E document \in LoadFiles : _load_sequence(document)
    \/ _run_sequence
    \/ _run_sequence_confirm
    \/ _on_sequence_finish
    \/ \E w \in Threads : Worker(w)
    \/ Tick

SpecEdit == InitEdit /\ [][NextEdit]_vars

\* _load_sequence with the file chosen that _save_sequence wrote last.
_load_sequence_saved ==
    /\ saved_file.written
    /\ _load_sequence(saved_file.document)

\* The Sequence saved to a file and read back, before, during and after a
\* run of it.
InitFile ==
    /\ sequence_data \in FilePrograms
    /\ runs_left = 1
    /\ Start

NextFile ==
    \/ _connect_pump(TRUE, Q(1, 2), "echo")
    \/ _connect_pump_end
    \/ _save_sequence
    \/ _load_sequence_saved
    \/ _clear_sequence
    \/ _run_sequence
    \/ _run_sequence_confirm
    \/ _on_sequence_finish
    \/ \E w \in Threads : Worker(w)
    \/ Tick

SpecFile == InitFile /\ [][NextFile]_vars

\* One run under the monitor: the operator connects in debug mode, starts
\* the run and may stop it; the event loop runs the monitor's timer.
InitMonitor ==
    /\ sequence_data \in MonitorPrograms
    /\ runs_left = 1
    /\ Start

NextMonitor ==
    \/ _connect_pump(TRUE, Q(1, 2), "echo")
    \/ _connect_pump_end
    \/ _run_sequence
    \/ _run_sequence_confirm
    \/ _stop_sequence
    \/ \E now \in ClockReadings : _periodic_updater(now)
    \/ _on_sequence_finish
    \/ \E w \in Threads : Worker(w)
    \/ Tick

SpecMonitor == InitMonitor /\ [][NextMonitor]_vars

\* One run with a Ramp whose interval the operator changes while the worker
\* runs, and which the operator may stop.
InitRamp ==
    /\ sequence_data \in RampPrograms
    /\ runs_left = 1
    /\ Start

NextRamp ==
    \/ \E ci \in RampIntervals : _connect_pump(TRUE, ci, "echo")
    \/ _connect_pump_end
    \/ \E ci \in RampIntervals : _set_command_interval(ci)
    \/ _run_sequence
    \/ _run_sequence_confirm
    \/ _stop_sequence
    \/ _on_sequence_finish
    \/ \E w \in Threads : Worker(w)
    \/ Tick

SpecRamp == InitRamp /\ [][NextRamp]_vars

\* One run, which nobody cancels, of a Sequence with several Cycles.
InitCycle ==
    /\ sequence_data \in CyclePrograms
    /\ runs_left = 1
    /\ Start

NextCycle ==
    \/ _connect_pump(TRUE, Q(1, 2), "echo")
    \/ _connect_pump_end
    \/ _run_sequence
    \/ _run_sequence_confirm
    \/ _on_sequence_finish
    \/ \E w \in Threads : Worker(w)
    \/ Tick

SpecCycle == InitCycle /\ [][NextCycle]_vars

\* The same run with its scheduling: a started worker thread is given the
\* processor again and again, and the clock goes on.
SpecCycleFair ==
    /\ InitCycle /\ [][NextCycle]_vars
    /\ \A w \in Threads : WF_vars(Worker(w))
    /\ WF_vars(Tick)

(***************************************************************************)
(* Properties                                                              *)
(***************************************************************************)
Range(f) == {f[i] : i \in DOMAIN f}

KH == Cmd("KH", 0)

\* How often the worker has entered the Phase at step k.
Visits(th, k) == Cardinality({j \in DOMAIN th.visits : th.visits[j] = k})

\* The worker has run its closing check without ever having seen the flag set.
Uncancelled(th) == th.at \in {"post", "done"} /\ ~th.saw_stop

\* seq is Phases and one Cycle, at step c, with valid bounds and placed
\* after the step its range ends with.
OneCycleAt(seq, c) ==
    /\ c \in DOMAIN seq
    /\ seq[c].type = "Cycle"
    /\ \A k \in DOMAIN seq \ {c} : seq[k].type = "Phase"
    /\ 1 <= seq[c].start_phase
    /\ seq[c].start_phase <= seq[c].end_phase
    /\ seq[c].end_phase <= Len(seq)
    /\ seq[c].end_phase < c

\* C1: in an uncancelled run of a Sequence of Phases with one valid Cycle
\* placed after the last step of its range, every Phase of the range is
\* executed 1 + repeats times and every other Phase once.
C1_CycleCounts ==
    \A w \in Threads : \A c \in DOMAIN thread[w].sequence :
        LET th == thread[w]
            seq == th.sequence
        IN  (Uncancelled(th) /\ OneCycleAt(seq, c)) =>
                \A k \in DOMAIN seq \ {c} :
                    Visits(th, k) =
                        IF seq[c].start_phase <= k /\ k <= seq[c].end_phase
                        THEN 1 + seq[c].repeats
                        ELSE 1

\* The commands handed to send_buffered_command: by the callback that has
\* just run and by the workers.
Issued ==
    {r.cmd : r \in Range(ui_sent)}
        \cup UNION {Range(thread[w].out) : w \in Threads}

\* C3: every speed command carries an integer from 0 to 4800, whatever rpm
\* was asked for.
C3_SpeedBounds ==
    \A c \in Issued : c.op = "R" => c.arg \in 0..4800

\* A worker ramping to 60 rpm has just sent the speed command of the last
\* ramp step, cut down to 48 rpm.
C3_Witness ==
    \E w \in Threads :
        LET th == thread[w] IN
        /\ th.at = "ep_end"
        /\ Instruction(th).mode = "Ramp"
        /\ Instruction(th).rpm = QInt(60)
        /\ th.out # <<>>
        /\ th.out[Len(th.out)] = Cmd("R", 4800)

\* C4: a worker that has seen the flag set hands no further command to the
\* driver for the rest of its run.
C4_SilentAfterStopSeen ==
    [][\A w \in Threads :
          (thread[w].saw_stop /\ is_alive(w)) => thread'[w].out = thread[w].out]_vars

\* C5: a run whose cancellation was requested comes to its end: while it is
\* Running with the flag set, its worker is still on its way or the finish
\* callback is queued.
C5_CancelledRunEnds ==
    (stop_event /\ sequence_is_running) =>
        (after_finish > 0 \/ \E w \in Threads : is_alive(w))

\* C6: a worker whose pc has passed the last step, in a run nobody
\* cancelled, has issued the stop command once, as its last command.
C6_StopAtCompletion ==
    \A w \in Threads :
        LET th == thread[w] IN
        (/\ th.at \in {"post", "done", "crashed"}
         /\ th.pc >= Len(th.sequence)
         /\ ~th.saw_stop /\ ~stop_event)
        => /\ th.out # <<>>
           /\ th.out[Len(th.out)] = KH
           /\ Cardinality({j \in DOMAIN th.out : th.out[j] = KH}) = 1

MarkerSteps(timeline) ==
    [j \in DOMAIN timeline.phase_markers |-> timeline.phase_markers[j].step]

\* The expander's loop on seq ended by itself, not by the iteration limit.
WithinIterations(seq) ==
    LET st == ExpandLoop(ExpandStart(seq), RAMP_STEP_INTERVAL_S, max_iterations)
    IN  st.status = "break" \/ st.pc >= Len(seq)

\* C2, as stated: the Phases an uncancelled run has executed are the steps
\* of the phase markers of the run's plan, in the same order.
C2_SimulateExecute ==
    \A w \in Threads :
        Uncancelled(thread[w]) => thread[w].visits = MarkerSteps(plot_data)

\* C2, amended: the same, for a Sequence whose expansion ends before the
\* limit of max_iterations iterations.
C2_SimulateExecuteWithinLimit ==
    \A w \in Threads :
        (Uncancelled(thread[w]) /\ WithinIterations(thread[w].sequence))
            => thread[w].visits = MarkerSteps(plot_data)

\* The run of Cycle(2,3,2) over four Phases is through: eight Phases
\* executed, eight markers.
C2_Witness ==
    \E w \in Threads :
        /\ Uncancelled(thread[w])
        /\ thread[w].sequence = FourPhases
        /\ Len(thread[w].visits) = 8
        /\ Len(plot_data.phase_markers) = 8

C9_NoSideEffects ==
    [][Len(expand_log') > Len(expand_log) =>
          /\ sequence_data' = sequence_data
          /\ ui_sent' = <<>>
          /\ thread' = thread
          /\ current_step_num' = current_step_num
          /\ sequence_is_running' = sequence_is_running
          /\ pump_controller' = pump_controller
          /\ stop_event' = stop_event]_vars

\* The expander has been called on a Sequence with a Cycle, which the
\* editor still holds as it was handed over.
C9_Witness ==
    /\ expand_log # <<>>
    /\ expand_log[1].value.phase_markers # <<>>
    /\ \E k \in DOMAIN sequence_data : sequence_data[k].type = "Cycle"
    /\ sequence_data = expand_log[1].sequence

\* The duration of a Phase in seconds.
Seconds(phase) ==
    IF phase.unit = "hr" THEN QMul(QInt(3600), phase.duration)
    ELSE IF phase.unit = "min" THEN QMul(QInt(60), phase.duration)
    ELSE phase.duration

\* The durations of the Phases of seq at the first n steps of path, added up.
RECURSIVE PathSeconds(_, _, _)
PathSeconds(seq, path, n) ==
    IF n = 0 THEN QInt(0)
    ELSE QAdd(PathSeconds(seq, path, n - 1), Seconds(seq[path[n]]))

NonNegativeDurations(seq) ==
    \A k \in DOMAIN seq :
        seq[k].type = "Phase" => QLe(QInt(0), seq[k].duration)

RampSamples(duration_s, command_interval) ==
    LET q == QDiv(duration_s, command_interval)
        n == q[1] \div q[2]
    IN  IF n < 1 THEN 1 ELSE n

\* The number of points the Phase of marker j adds to a Timeline: two for a
\* Fixed Phase that changes the speed, N for a Ramp, one otherwise.
MarkerPoints(e, j) ==
    LET m == e.value.phase_markers[j]
        phase == e.sequence[m.step]
    IN  IF phase.mode = "Ramp"
        THEN RampSamples(Seconds(phase), e.command_interval)
        ELSE IF phase.mode = "Fixed" /\ m.rpm # phase.rpm THEN 2 ELSE 1

\* The number of points of a Timeline before those of marker j.
RECURSIVE PointsBefore(_, _)
PointsBefore(e, j) ==
    IF j = 1 THEN 1 ELSE PointsBefore(e, j - 1) + MarkerPoints(e, j - 1)

\* C11: every call of the expander returns, and for every Ramp Phase on the
\* path the Timeline has exactly N = max(1, floor(duration / interval))
\* samples, sample k at start + k * duration / N with the speed
\* before + k * (target - before) / N, the last one at the end of the Phase
\* with the target.
C11_RampExpansion ==
    \A i \in DOMAIN expand_log :
        LET e == expand_log[i]
            markers == e.value.phase_markers
        IN  /\ ~e.raised
            /\ Len(e.value.time_points) = Len(e.value.rpm_points)
            /\ Len(e.value.time_points) =
                   IF markers = <<>> THEN 1
                   ELSE PointsBefore(e, Len(markers)) + MarkerPoints(e, Len(markers))
            /\ \A j \in DOMAIN markers :
                  LET m == markers[j]
                      phase == e.sequence[m.step]
                      dur == Seconds(phase)
                      N == RampSamples(dur, e.command_interval)
                      at == PointsBefore(e, j)
                  IN  phase.mode = "Ramp" =>
                        /\ \A k \in 1..N :
                              /\ e.value.time_points[at + k] =
                                    QAdd(m.time, QDiv(QMul(QInt(k), dur), QInt(N)))
                              /\ e.value.rpm_points[at + k] =
                                    QAdd(m.rpm, QDiv(QMul(QInt(k), QSub(phase.rpm, m.rpm)),
                                                     QInt(N)))
                        /\ e.value.time_points[at + N] = QAdd(m.time, dur)
                        /\ e.value.rpm_points[at + N] = phase.rpm

\* C12: every call of the expander returns a Timeline, raising nothing,
\* after at most 10,000 iterations of its loop.
C12_RunawayGuard ==
    \A i \in DOMAIN expand_log :
        /\ ~expand_log[i].raised
        /\ expand_log[i].iterations <= max_iterations

\* Step c of seq is a Cycle whose range is not 1 <= start <= end <= Len(seq),
\* and every step before it is a Phase or a Cycle over steps before c.
FaultAt(seq, c) ==
    /\ seq[c].type = "Cycle"
    /\ ~(1 <= seq[c].start_phase /\ seq[c].start_phase <= seq[c].end_phase
         /\ seq[c].end_phase <= Len(seq))
    /\ \A k \in 1..(c - 1) :
          seq[k].type = "Cycle" =>
              /\ 1 <= seq[k].start_phase /\ seq[k].start_phase <= seq[k].end_phase
              /\ seq[k].end_phase < c

\* The expander run over the steps of seq before step c.
BeforeFault(seq, c, command_interval) ==
    ExpandLoop(ExpandStart(SubSeq(seq, 1, c - 1)), command_interval, max_iterations)

\* C13: when the expander comes to a Cycle with an invalid range, the call
\* raises nothing and returns exactly the Timeline of the steps interpreted
\* before that Cycle.
C13_InvalidCycleStops ==
    \A i \in DOMAIN expand_log :
        LET e == expand_log[i] IN
        \A c \in DOMAIN e.sequence :
            LET before == BeforeFault(e.sequence, c, e.command_interval) IN
            (FaultAt(e.sequence, c) /\ before.status = "loop" /\ before.pc = c - 1) =>
                /\ ~e.raised
                /\ e.value = Timeline(before)

\* The expander came to an invalid Cycle after one Phase, with a Phase still
\* to come after the Cycle.
C13_Witness ==
    \E i \in DOMAIN expand_log :
        LET e == expand_log[i] IN
        /\ Len(e.sequence) = 3
        /\ FaultAt(e.sequence, 2)
        /\ e.sequence[3].type = "Phase"
        /\ BeforeFault(e.sequence, 2, e.command_interval).status = "loop"
        /\ Len(e.value.phase_markers) = 1
        /\ ~e.raised

\* C19: no step changes the Sequence a started worker was handed, for as
\* long as the worker has it, and a worker that starts is handed the
\* Sequence the editor holds at that moment.
C19_FrozenRunCopy ==
    [][\A w \in Threads :
          /\ (thread[w].at # "none" /\ thread'[w].at # "ended") =>
                thread'[w].sequence = thread[w].sequence
          /\ (thread[w].at = "none" /\ thread'[w].at # "none") =>
                thread'[w].sequence = sequence_data]_vars

\* During a run the editor has replaced a step by an edited one: the list
\* of the editor and the list of the worker share a dict and differ in
\* another.
C19_Witness ==
    \E w \in Threads :
        /\ is_alive(w)
        /\ Len(thread[w].sequence) = 2 /\ Len(sequence_data) = 2
        /\ thread[w].ids[1] # sequence_ids[1]
        /\ thread[w].sequence[1] # sequence_data[1]
        /\ thread[w].ids[2] = sequence_ids[2]

\* C14: when connect() has returned without success, the port is not open.
C14_FailedConnectClosed ==
    ui = "connected" =>
        (pump_controller.is_connected \/ pump_controller.ser # "open")

\* C15: when disconnect() has returned, the driver is not connected, the
\* port is not open, and another disconnect() would leave it as it is.
C15_DisconnectIdempotent ==
    (ui = "disconnecting" /\ pump_controller.present) =>
        /\ ~pump_controller.is_connected
        /\ pump_controller.ser # "open"
        /\ disconnect(pump_controller) = {pump_controller}

\* C16: a driver in debug mode is connected by every connect(), never has a
\* port, and neither a callback nor a worker calling it writes anything.
C16_SimulationMode ==
    [][/\ (pump_controller'.present /\ pump_controller'.debug_mode) =>
            /\ pump_controller'.ser = "none"
            /\ ui' = "connected" => pump_controller'.is_connected
       /\ (pump_controller.present /\ pump_controller.debug_mode) =>
            /\ \A r \in Range(ui_sent') : r.via \in {"debug", "dropped"}
            /\ \A w \in Threads :
                  Len(thread'[w].out) > Len(thread[w].out) =>
                      /\ thread'[w].at # "crashed"
                      /\ \A r \in send_buffered_command(pump_controller,
                                     thread'[w].out[Len(thread'[w].out)], FALSE) :
                            r.via \in {"debug", "dropped"}]_vars

\* A whole run on a driver in debug mode has ended with the stop command.
C16_Witness ==
    /\ pump_controller.present /\ pump_controller.debug_mode
    /\ pump_controller.is_connected
    /\ runs_left = 0 /\ sequence_thread = 1
    /\ thread[1].at = "done" /\ Len(thread[1].out) >= 3
    /\ thread[1].out[Len(thread[1].out)] = KH

\* rpm brought into [0, 48].
Clamped(rpm) ==
    IF QLt(rpm, QInt(0)) THEN QInt(0)
    ELSE IF QLt(QInt(48), rpm) THEN QInt(48) ELSE rpm

\* The integer nearest to a, for a >= 0 and not half way between two.
Rounded(a) == QTrunc(QAdd(a, Q(1, 2)))

\* C17: the speed command of a Fixed Phase carries rpm*100 of the clamped
\* rpm, rounded to the nearest integer.
C17_SpeedRounded ==
    \A w \in Threads :
        LET th == thread[w] IN
        th.at = "fixed_wait" =>
            th.out[Len(th.out)] =
                Cmd("R", Rounded(QMul(Clamped(Instruction(th).rpm), QInt(100))))

\* C18: the direction commands and the stop command are sent with wait
\* false.
C18_NoWait ==
    \A r \in Range(ui_sent) : r.cmd.op \in {"K>", "K<", "KH"} => ~r.wait

\* C20: a step that starts a worker thread is taken with a Sequence that is
\* not empty, from the confirmation dialog, and with a connected driver.
C20_EntryToRunning ==
    [][sequence_thread' # sequence_thread =>
          /\ sequence_data # <<>>
          /\ ui = "confirm"
          /\ pump_controller.present /\ pump_controller.is_connected]_vars

\* C23: while a run is Running and its worker is alive, no callback of the
\* main thread writes a command to the serial port.
C23_SoleWriter ==
    (sequence_is_running /\ \E w \in Threads : is_alive(w)) =>
        \A r \in Range(ui_sent) : r.via # "wire"

\* C24: no worker ends in an exception, and a run that is Running has a
\* worker on its way or its finish callback queued.
C24_RunLeavesRunning ==
    /\ \A w \in Threads : thread[w].at # "crashed"
    /\ sequence_is_running =>
          (after_finish > 0 \/ \E w \in Threads : is_alive(w))

\* C25: after a callback in which a write to the serial port raised, the
\* driver is not connected.
C25_TransportErrorDisconnects ==
    \A r \in Range(ui_sent) :
        r.via = "raise" => ~(pump_controller.present /\ pump_controller.is_connected)

Directions == {"K>", "K<"}

\* The number of direction commands among the first p commands of out: the
\* Phase visit that command p belongs to.
VisitOf(out, p) == Cardinality({q \in 1..p : out[q].op \in Directions})

\* C29: in the commands of a worker, the k-th direction command is that of
\* the k-th Phase visited by the program counter, every speed command
\* follows the direction command of its visit, a Fixed Phase has exactly
\* one speed command, that of its rpm, once it was sent, and the stop
\* command comes last.
C29_CommandOrder ==
    \A w \in Threads :
        LET th == thread[w]
            out == th.out
            phase(k) == th.sequence[th.visits[k]]
        IN  /\ \A p \in DOMAIN out :
                  LET k == VisitOf(out, p) IN
                  /\ out[p].op \in Directions =>
                        /\ k <= Len(th.visits)
                        /\ out[p].op = IF phase(k).direction = "Forward"
                                        THEN "K>" ELSE "K<"
                  /\ out[p].op = "R" =>
                        /\ k >= 1
                        /\ phase(k).mode \in {"Fixed", "Ramp"}
                        /\ phase(k).mode = "Fixed" =>
                              /\ out[p] = speed_command(phase(k).rpm)
                              /\ \A q \in DOMAIN out :
                                    (out[q].op = "R" /\ VisitOf(out, q) = k) => q = p
                  /\ out[p].op = "KH" => p = Len(out)
            /\ \A k \in DOMAIN th.visits :
                  (/\ phase(k).mode = "Fixed"
                   /\ k < Len(th.visits) \/ th.at \notin {"ep_dir", "fixed_send", "crashed"}) =>
                      \E p \in DOMAIN out : out[p].op = "R" /\ VisitOf(out, p) = k

\* A worker has ended a run in which a Cycle sent it back over a Fixed
\* Phase: the Phase was visited more than once.
C29_Witness ==
    \E w \in Threads :
        LET th == thread[w] IN
        /\ th.at = "done"
        /\ th.out[Len(th.out)] = KH
        /\ \E j, k \in DOMAIN th.visits :
              /\ j < k /\ th.visits[j] = th.visits[k]
              /\ th.sequence[th.visits[k]].mode = "Fixed"
        /\ \E j \in DOMAIN th.visits : th.sequence[th.visits[j]].direction = "Forward"
        /\ \E j \in DOMAIN th.visits : th.sequence[th.visits[j]].direction = "Backward"

\* C30: a worker that comes to a Ramp Phase takes N = max(1, floor(duration
\* / interval)) steps; the command of step i carries the speed start +
\* (target - start) * i / N and is not issued before i * duration / N of the
\* Phase has passed, the last one carries the target, and a step is only
\* issued after a check that found the flag clear.
C30_RampExecution ==
    [][\A w \in Threads :
          LET th == thread[w]
              after == thread'[w]
              phase == Instruction(th)
              dur == Seconds(phase)
          IN  /\ (th.at = "ramp_init" /\ after.at # "ramp_init" /\ pump_controller.present) =>
                    /\ after.at = "ramp_wait"
                    /\ after.num_steps =
                          IF QLt(QInt(0), dur)
                          THEN RampSamples(dur, pump_controller.command_interval)
                          ELSE 1
              /\ (th.at = "ramp_send" /\ Len(after.out) > Len(th.out)) =>
                    /\ after.out[Len(after.out)] =
                          speed_command(QAdd(th.current_rpm,
                              QDiv(QMul(QSub(phase.rpm, th.current_rpm), QInt(th.i)),
                                   QInt(th.num_steps))))
                    /\ QLe(QDiv(QMul(QInt(th.i), dur), QInt(th.num_steps)), th.elapsed)
                    /\ th.i = th.num_steps =>
                          after.out[Len(after.out)] = speed_command(phase.rpm)
              /\ (after.at = "ramp_send" /\ th.at # "ramp_send") =>
                    (th.at = "ramp_check" /\ ~stop_event)]_vars

\* What the dialogs accept: a speed within 0..48 and a duration that is not
\* negative for a Phase, positive numbers with end >= start for a Cycle.
ValidStep(step) ==
    IF step.type = "Phase"
    THEN /\ QLe(QInt(0), step.rpm) /\ QLe(step.rpm, QInt(48))
         /\ QLe(QInt(0), step.duration)
    ELSE /\ step.start_phase >= 1
         /\ step.end_phase >= step.start_phase
         /\ step.repeats > 0

\* C21: whatever the editor has done (add, edit, move, remove, clear, load),
\* every step of the Sequence is one the dialogs accept.
C21_ValidSequence ==
    \A k \in DOMAIN sequence_data : ValidStep(sequence_data[k])

\* C22: the document _save_sequence writes reads back as the Sequence that
\* was saved, step by step and field by field, and saving leaves the
\* Sequence alone; _load_sequence of the saved file makes the Sequence what
\* the document reads as. Both hold before, during and after a run.
C22_RoundTrip ==
    [][/\ saved_file' # saved_file =>
              /\ json_load(saved_file'.document) = sequence_data
              /\ sequence_data' = sequence_data
       /\ (saved_file.written /\ sequence_ids' # sequence_ids /\ sequence_data' # <<>>) =>
              sequence_data' = json_load(saved_file.document)]_vars

\* A Sequence with a speed that is not a whole number was run to its end,
\* and the editor holds other dicts than the ones that were run, read from
\* the saved file, with the values of the ones that were run.
C22_Witness ==
    /\ saved_file.written
    /\ sequence_data # <<>>
    /\ sequence_data = json_load(saved_file.document)
    /\ \E w \in Threads :
          /\ thread[w].at = "done"
          /\ thread[w].sequence = sequence_data
          /\ \A j \in DOMAIN sequence_ids, k \in DOMAIN thread[w].ids :
                sequence_ids[j] # thread[w].ids[k]
    /\ \E k \in DOMAIN sequence_data :
          sequence_data[k].type = "Phase" /\ sequence_data[k].rpm[2] # 1

\* C26: the report of _on_sequence_finish draws the live plot to the last
\* sample of the Timeline at the total planned time, and sets the progress
\* to the total planned time.
C26_FinalReport ==
    report.kind = "final" =>
        /\ report.progress.elapsed = total_sequence_time
        /\ Len(report.plot) = 1
        /\ report.plot[1].rpm = plot_data.rpm_points[Len(plot_data.rpm_points)]
        /\ report.plot[1].time =
              QMul(total_sequence_time, time_factor(total_sequence_time))

\* C27: the elapsed time of every report lies between 0 and the total
\* planned time.
C27_ProgressBound ==
    report.kind # "none" =>
        /\ QLe(QInt(0), report.progress.elapsed)
        /\ QLe(report.progress.elapsed, report.progress.total)

\* C28 as stated: the direction of a periodic report is that of the first
\* interval of the plan whose end time is >= the elapsed time reported.
C28_PlannedDirectionExact ==
    report.kind = "periodic" =>
        LET dirs == plot_data.phase_directions
            t == report.progress.elapsed
        IN  (\E k \in DOMAIN dirs : QLe(t, dirs[k].end_time)) =>
                \E k \in DOMAIN dirs :
                    /\ QLe(t, dirs[k].end_time)
                    /\ \A j \in 1..(k - 1) : QLt(dirs[j].end_time, t)
                    /\ report.plot[1].direction = dirs[k].direction

\* C28: the direction of a periodic report is that of the first interval of
\* the plan whose end time plus a millisecond is >= the elapsed time
\* reported, the earlier of two that end together, and "Forward" when there
\* is no such interval.
C28_PlannedDirection ==
    report.kind = "periodic" =>
        LET dirs == plot_data.phase_directions
            t == report.progress.elapsed
            late(k) == QAdd(dirs[k].end_time, Q(1, 1000))
        IN  \/ \E k \in DOMAIN dirs :
                  /\ QLe(t, late(k))
                  /\ \A j \in 1..(k - 1) : QLt(late(j), t)
                  /\ report.plot[1].direction = dirs[k].direction
            \/ /\ \A k \in DOMAIN dirs : QLt(late(k), t)
               /\ report.plot[1].direction = "Forward"

\* A report made within a millisecond after the end of a Forward interval
\* that a Backward interval follows: the direction is still Forward.
C28_Witness ==
    /\ report.kind = "periodic"
    /\ Len(plot_data.phase_directions) = 2
    /\ QLt(plot_data.phase_directions[1].end_time, report.progress.elapsed)
    /\ QLe(report.progress.elapsed,
           QAdd(plot_data.phase_directions[1].end_time, Q(1, 1000)))
    /\ plot_data.phase_directions[1].direction = "Forward"
    /\ plot_data.phase_directions[2].direction = "Backward"
    /\ report.plot[1].direction = "Forward"

\* The places of a worker inside the loop of a Ramp (lines 773-782).
RampAts == {"ramp_wait", "ramp_check", "ramp_send"}

\* C31: whatever happens while a worker is inside the loop of a Ramp
\* (a change of the driver's command interval included), the step count, the
\* start speed and the Phase of that Ramp stay what they were; every speed
\* command of the Ramp is the one interpolated with that step count, and is
\* not issued before its step time.  The step count is fixed from the
\* interval the driver has when the Ramp reads it (line 767), so a change
\* acts on the Ramps that read it afterwards.
C31_LiveInterval ==
    [][\A w \in Threads :
         LET th == thread[w]
             af == thread'[w]
             duration_s == phase_duration_s(Instruction(th))
         IN  /\ (th.at \in RampAts /\ af.at \in RampAts \cup {"ep_end"}) =>
                   /\ af.num_steps = th.num_steps
                   /\ af.current_rpm = th.current_rpm
                   /\ af.pc = th.pc /\ af.sequence = th.sequence
                   /\ af.i \in {th.i, th.i + 1}
             /\ (th.at = "ramp_send" /\ Len(af.out) > Len(th.out)) =>
                   af.out = Append(th.out,
                       speed_command(QAdd(th.current_rpm,
                           QMul(QSub(Instruction(th).rpm, th.current_rpm),
                                Q(th.i, th.num_steps)))))
             /\ (th.at = "ramp_wait" /\ af.at = "ramp_check") =>
                   QLe(QMul(QInt(th.i), QDiv(duration_s, QInt(th.num_steps))),
                       af.elapsed)
             /\ (th.at = "ramp_init" /\ af.at = "ramp_wait") =>
                   af.num_steps = phase_num_steps(duration_s,
                                      pump_controller.command_interval)
      ]_vars

\* A worker about to issue a later step of a Ramp whose step count is no
\* longer the one the driver's present interval would give.
C31_Witness ==
    \E w \in Threads :
        /\ thread[w].at = "ramp_send"
        /\ thread[w].i >= 2
        /\ pump_controller.present
        /\ pump_controller.command_interval # QInt(0)
        /\ thread[w].num_steps #
              phase_num_steps(phase_duration_s(Instruction(thread[w])),
                              pump_controller.command_interval)

\* The speed the device was last commanded to when a Ramp is left: that of
\* the last step issued, the start speed when no step was issued.
LastCommanded(th) ==
    IF th.i <= 1 THEN th.current_rpm ELSE ramp_rpm(th, th.i - 1)

Between(a, b, x) == (QLe(a, x) /\ QLe(x, b)) \/ (QLe(b, x) /\ QLe(x, a))

\* C32: _execute_phase returns the target speed when the Phase completed
\* and when a Fixed Phase was cancelled; a Ramp cancelled under way returns
\* a speed between the start speed and the target that is the speed the
\* device was last commanded to.
C32_PhaseReturn ==
    [][\A w \in Threads :
         LET th == thread[w]
             af == thread'[w]
             phase == Instruction(th)
         IN  (th.at \in {"ep_end", "ep_residual"} /\ af.at = "loop") =>
                IF th.at = "ep_end" /\ stop_event /\ phase.mode = "Ramp"
                THEN /\ Between(th.current_rpm, phase.rpm, af.current_rpm)
                     /\ af.current_rpm = LastCommanded(th)
                ELSE af.current_rpm = phase.rpm
      ]_vars

\* A Phase followed by two Cycles that both start at step 1: the first
\* Cycle lies inside what the second one executes again.
TwoCycles(seq) ==
    /\ Len(seq) = 3
    /\ seq[1].type = "Phase" /\ seq[2].type = "Cycle" /\ seq[3].type = "Cycle"
    /\ \A c \in 2..3 : /\ seq[c].start_phase = 1
                        /\ seq[c].end_phase \in 1..3
                        /\ seq[c].repeats > 0

Occurrences(f, x) == Cardinality({j \in DOMAIN f : f[j] = x})

\* C33: a Cycle whose budget is 0 is cleared and passed, and a Cycle met
\* without a counter starts with its full repeat count; so a Cycle inside
\* what a later Cycle executes again does all its repeats on every pass, in
\* the worker and in the expander, and the expander records one span with
\* start time <= end time for every completion of a Cycle.
C33_CycleRearm ==
    [][/\ \A w \in Threads :
            LET th == thread[w]
                af == thread'[w]
            IN  /\ (th.at = "loop" /\ af # th /\ th.pc < Len(th.sequence)
                       /\ Instruction(th).type = "Cycle" /\ af.at = "loop") =>
                      LET budget == IF th.pc \in DOMAIN th.cycle_counters
                                    THEN th.cycle_counters[th.pc]
                                    ELSE Instruction(th).repeats
                      IN  IF budget > 0
                          THEN /\ af.pc = Instruction(th).start_phase - 1
                               /\ af.cycle_counters[th.pc] = budget - 1
                          ELSE /\ af.pc = th.pc + 1
                               /\ th.pc \notin DOMAIN af.cycle_counters
                /\ (Uncancelled(af) /\ TwoCycles(af.sequence)) =>
                      Visits(af, 1) = (1 + af.sequence[2].repeats)
                                        * (1 + af.sequence[3].repeats)
       /\ \A w \in Threads :
            LET seq == thread'[w].sequence
                timeline == plot_data'
            IN  (sequence_thread' = w /\ thread'[w].at \notin {"none", "ended"}) =>
                  /\ TwoCycles(seq) =>
                        /\ Occurrences(MarkerSteps(timeline), 1) =
                              (1 + seq[2].repeats) * (1 + seq[3].repeats)
                        /\ Len(timeline.cycle_spans) = 2 + seq[3].repeats
                  /\ \A j \in DOMAIN timeline.cycle_spans :
                        QLe(timeline.cycle_spans[j][1], timeline.cycle_spans[j][2])
      ]_vars

InLoop ==
    {"loop", "ep_check", "ep_dir", "fixed_send", "fixed_wait", "ramp_init",
     "ramp_wait", "ramp_check", "ramp_send", "ep_end", "ep_residual"}

\* C34: a worker that nobody cancels, running a Sequence of Phases of finite
\* duration and Cycles of finite repeat counts, leaves the loop of
\* _sequence_worker at some time, however the Cycles are arranged.
C34_WorkerLeavesLoop ==
    \A w \in Threads :
        (thread[w].at \in InLoop) ~> (thread[w].at \notin InLoop)

\* A worker that has left its loop by running past the last step of a
\* Sequence with a Cycle inside a later Cycle, all repeats done.
C34_Witness ==
    \E w \in Threads :
        /\ Uncancelled(thread[w])
        /\ TwoCycles(thread[w].sequence)
        /\ thread[w].pc = Len(thread[w].sequence)
        /\ DOMAIN thread[w].cycle_counters = {}
        /\ Len(thread[w].visits) = 6

\* C35: a worker that ran every step of its Sequence to the end, the flag
\* never seen set, issues the stop command at its closing check, whatever
\* the main thread did in between.  (A Hold Phase that ends the Sequence
\* is left out: its closing wait, lines 787-789, can be cut short without
\* the worker noticing.)
C35_StopAtCompletion ==
    [][\A w \in Threads :
         LET th == thread[w]
             af == thread'[w]
         IN  (/\ th.at = "final" /\ af.at # "final"
              /\ th.pc = Len(th.sequence)
              /\ ~th.saw_stop /\ th.errors = {}
              /\ pump_controller.present
              /\ (th.sequence[Len(th.sequence)].type = "Phase" =>
                      th.sequence[Len(th.sequence)].mode # "Hold"))
             => af.out = Append(th.out, KH)
      ]_vars

Issuing(w) == thread[w].at \notin {"none", "post", "done", "crashed", "ended"}

\* C37: at most one worker thread can issue device commands, and a run is
\* started only when every earlier worker has ended and no finish handler
\* is waiting to run.
C37_SingleExecutor ==
    [][/\ Cardinality({w \in Threads : Issuing(w)}) <= 1
       /\ \A w \in Threads :
            (thread[w].at = "none" /\ thread'[w].at # "none") =>
                /\ \A v \in Threads \ {w} : ~is_alive(v)
                /\ after_finish = 0
      ]_vars

\* The calls of the driver a caller can make.
DriverCalls(c) ==
    {start_forward(c), start_backward(c), stop(c), set_remote_mode(c),
     set_keypad_mode(c)}
        \cup {set_speed(c, rpm, wait) : rpm \in ManualRpms, wait \in BOOLEAN}
        \cup {send_buffered_command(c, cmd, wait) :
                  cmd \in {KH, Cmd("R", 100)}, wait \in BOOLEAN}

\* C38: on a driver that is not connected every call of the driver ends at
\* the return of line 110: nothing is written, nothing is waited for and
\* the error is logged; the caller goes on (the call does not raise) and
\* the driver is left as it was.
C38_NotConnected ==
    [][(pump_controller.present /\ ~pump_controller.is_connected) =>
         /\ \A results \in DriverCalls(pump_controller) :
               \A r \in results : r.via = "dropped"
         /\ \A w \in Threads :
               LET th == thread[w]
                   af == thread'[w]
               IN  (th.at \in {"ep_dir", "fixed_send", "ramp_send", "final"}
                      /\ af.at # th.at /\ ~(th.at = "final" /\ stop_event)) =>
                      /\ af.at # "crashed"
                      /\ Len(af.out) = Len(th.out) + 1
                      /\ af.not_connected
                      /\ af.elapsed = th.elapsed \/ th.at = "ep_dir"
                      /\ pump_controller' = pump_controller
      ]_vars

\* A worker that went on after a call the driver dropped.
C38_Witness ==
    \E w \in Threads :
        /\ thread[w].not_connected
        /\ thread[w].at \in {"fixed_wait", "ramp_wait", "post", "done"}
        /\ thread[w].out # <<>>
====
